---------------------------- MODULE Spec2Model ----------------------------
(***************************************************************************)
(* Discolors content script (content/index.ts) with its storage helpers    *)
(* (shared/storage.ts) and utilities (shared/utils.ts), modelled as a      *)
(* state machine over the page's DOM, chrome.storage.sync and the event    *)
(* loop of the page.                                                       *)
(*                                                                         *)
(* Strings the code parses (hex colors, gradient directions) are sequences *)
(* of one-character strings; the compiled CSS is the record of the values  *)
(* interpolated into the template of generateThemeCSS.                     *)
(***************************************************************************)
EXTENDS Integers, Sequences, FiniteSets, TLC

(***************************************************************************)
(* Bounds of the model.                                                    *)
(***************************************************************************)
\* Number of runtime messages delivered to the content script.
MaxMessages == 2
\* Number of mutations the host page performs on the document.
MaxHostOps == 2

(***************************************************************************)
(* Constants of content/index.ts.                                          *)
(***************************************************************************)
STYLE_ELEMENT_ID == "discolors-theme-style"
THEME_CLASS_NAME == "custom-theme-background"

\* null (an absent config), the text of a style element that does not exist,
\* and the empty string generateThemeCSS returns for an empty color list.
Null == [kind |-> "null"]
NoText == [kind |-> "no-element"]
EmptyCss == [kind |-> "empty-string"]

\* Values that are not strings: a missing property (undefined) and a number.
\* They are kept apart from strings, which are sequences of one-character
\* strings.
Undefined == <<"undefined">>
NumberValue == <<"number">>
IsString(v) == v \notin {Undefined, NumberValue}

\* A TypeError raised by the evaluation: as the value of an expression, and
\* as the outcome of generateThemeCSS.
TypeError == <<"TypeError">>
Thrown == [kind |-> "TypeError"]

(***************************************************************************)
(* String helpers: decimal and hexadecimal conversions as JavaScript's     *)
(* parseInt, Number.prototype.toString and String.prototype.padStart do    *)
(* them.                                                                   *)
(***************************************************************************)
DecChars == <<"0", "1", "2", "3", "4", "5", "6", "7", "8", "9">>
HexChars == DecChars \o <<"a", "b", "c", "d", "e", "f">>
UpperHexChars == DecChars \o <<"A", "B", "C", "D", "E", "F">>

IsDecDigit(ch) == \E i \in 1..10 : DecChars[i] = ch
IsHexDigit(ch) == \E i \in 1..16 : HexChars[i] = ch \/ UpperHexChars[i] = ch

DecVal(ch) == (CHOOSE i \in 1..10 : DecChars[i] = ch) - 1
HexVal(ch) == (CHOOSE i \in 1..16 : HexChars[i] = ch \/ UpperHexChars[i] = ch) - 1

RECURSIVE ParseDigits(_, _, _)
\* parseInt(s, 10) / parseInt(s, 16) on a string made of digits of that radix.
ParseDigits(s, radix, acc) ==
    IF s = <<>> THEN acc
    ELSE ParseDigits(Tail(s), radix,
                     acc * radix + (IF radix = 10 THEN DecVal(Head(s)) ELSE HexVal(Head(s))))

RECURSIVE NumToString(_, _)
\* n.toString(radix) for a natural number n.
NumToString(n, radix) ==
    IF n < radix THEN <<HexChars[n + 1]>>
    ELSE NumToString(n \div radix, radix) \o <<HexChars[(n % radix) + 1]>>

RECURSIVE PadStart(_, _, _)
\* s.padStart(len, ch)
PadStart(s, len, ch) == IF Len(s) >= len THEN s ELSE PadStart(<<ch>> \o s, len, ch)

Min(a, b) == IF a < b THEN a ELSE b
Max(a, b) == IF a > b THEN a ELSE b

(***************************************************************************)
(* shared/utils.ts                                                         *)
(***************************************************************************)
DegSuffix == <<"d", "e", "g">>

\* direction.match(/^(\d+)deg$/)
MatchesDegree(direction) ==
    /\ Len(direction) >= 4
    /\ SubSeq(direction, Len(direction) - 2, Len(direction)) = DegSuffix
    /\ \A i \in 1..(Len(direction) - 3) : IsDecDigit(direction[i])

\* Mutant: the degree is not clamped.
sanitizeGradientDirectionNoClamp(direction) ==
    IF ~IsString(direction) THEN TypeError
    ELSE IF MatchesDegree(direction)
    THEN NumToString(ParseDigits(SubSeq(direction, 1, Len(direction) - 3), 10, 0), 10)
             \o DegSuffix
    ELSE <<"9", "0">> \o DegSuffix

\* `direction.match` is a property of strings only: the call throws a
\* TypeError for undefined and for a number.
sanitizeGradientDirection(direction) ==
    IF ~IsString(direction) THEN TypeError
    ELSE IF MatchesDegree(direction)
    THEN LET degree == Min(360, Max(0,
                 ParseDigits(SubSeq(direction, 1, Len(direction) - 3), 10, 0)))
         IN  NumToString(degree, 10) \o DegSuffix
    ELSE <<"9", "0">> \o DegSuffix

(***************************************************************************)
(* content/index.ts: color math                                            *)
(***************************************************************************)
\* Mutant: the channels wrap around instead of being clamped.
adjustColorWrap(hex, amount) ==
    LET usePound == Len(hex) > 0 /\ hex[1] = "#"
        body == IF usePound THEN Tail(hex) ELSE hex
        num == ParseDigits(body, 16, 0)
        r == ((num \div 65536) + amount) % 256
        g == (((num \div 256) % 256) + amount) % 256
        b == ((num % 256) + amount) % 256
    IN  (IF usePound THEN <<"#">> ELSE <<>>)
            \o PadStart(NumToString(r * 65536 + g * 256 + b, 16), 6, "0")

\* Mutant: the result is not padded to six digits.
adjustColorUnpadded(hex, amount) ==
    LET usePound == Len(hex) > 0 /\ hex[1] = "#"
        body == IF usePound THEN Tail(hex) ELSE hex
        num == ParseDigits(body, 16, 0)
        r == Max(Min(255, (num \div 65536) + amount), 0)
        g == Max(Min(255, ((num \div 256) % 256) + amount), 0)
        b == Max(Min(255, (num % 256) + amount), 0)
    IN  (IF usePound THEN <<"#">> ELSE <<>>)
            \o NumToString(r * 65536 + g * 256 + b, 16)

\* adjustColor(hex, amount)
adjustColor(hex, amount) ==
    LET usePound == Len(hex) > 0 /\ hex[1] = "#"
        body == IF usePound THEN Tail(hex) ELSE hex
        num == ParseDigits(body, 16, 0)
        r == Max(Min(255, (num \div 65536) + amount), 0)
        g == Max(Min(255, ((num \div 256) % 256) + amount), 0)
        b == Max(Min(255, (num % 256) + amount), 0)
    IN  (IF usePound THEN <<"#">> ELSE <<>>)
            \o PadStart(NumToString(r * 65536 + g * 256 + b, 16), 6, "0")

Black == <<"#", "0", "0", "0", "0", "0", "0">>
White == <<"#", "f", "f", "f", "f", "f", "f">>

\* Mutant: a luminance of exactly 128 counts as light.
getTextColorInclusive(hex) ==
    LET r == ParseDigits(SubSeq(hex, 2, 3), 16, 0)
        g == ParseDigits(SubSeq(hex, 4, 5), 16, 0)
        b == ParseDigits(SubSeq(hex, 6, 7), 16, 0)
    IN  IF 299 * r + 587 * g + 114 * b >= 128000 THEN Black ELSE White

\* getTextColor(hex): the luminance comparison, scaled by 1000.
getTextColor(hex) ==
    LET r == ParseDigits(SubSeq(hex, 2, 3), 16, 0)
        g == ParseDigits(SubSeq(hex, 4, 5), 16, 0)
        b == ParseDigits(SubSeq(hex, 6, 7), 16, 0)
    IN  IF 299 * r + 587 * g + 114 * b > 128000 THEN Black ELSE White

(***************************************************************************)
(* The document root's class list.                                         *)
(***************************************************************************)
HostTokens == {"theme-light", "theme-dark"}

\* The class tokens a root can carry in the model, with their characters.
ClassTokens ==
    {"theme-light", "theme-dark", "custom-theme-background", "platform-web",
     "theme-lightness", "no-theme-dark"}
TokenChars ==
       "theme-light" :>
           <<"t", "h", "e", "m", "e", "-", "l", "i", "g", "h", "t">>
    @@ "theme-dark" :>
           <<"t", "h", "e", "m", "e", "-", "d", "a", "r", "k">>
    @@ "custom-theme-background" :>
           <<"c", "u", "s", "t", "o", "m", "-", "t", "h", "e", "m", "e",
             "-", "b", "a", "c", "k", "g", "r", "o", "u", "n", "d">>
    @@ "platform-web" :>
           <<"p", "l", "a", "t", "f", "o", "r", "m", "-", "w", "e", "b">>
    @@ "theme-lightness" :>
           <<"t", "h", "e", "m", "e", "-", "l", "i", "g", "h", "t", "n",
             "e", "s", "s">>
    @@ "no-theme-dark" :>
           <<"n", "o", "-", "t", "h", "e", "m", "e", "-", "d", "a", "r",
             "k">>

\* haystack.includes(needle)
Includes(haystack, needle) ==
    \E i \in 1..(Len(haystack) - Len(needle) + 1) :
        SubSeq(haystack, i, i + Len(needle) - 1) = needle

\* document.documentElement.className.includes(TokenChars[token]): className
\* is the tokens of `classes` separated by spaces, and no token holds a space.
classNameIncludes(classes, token) ==
    \E t \in classes : Includes(TokenChars[t], TokenChars[token])

\* detectThemeMode()
detectThemeMode(classes) ==
    IF classNameIncludes(classes, "theme-light") THEN "light"
    ELSE IF classNameIncludes(classes, "theme-dark") THEN "dark"
    ELSE "dark"

(***************************************************************************)
(* Theme configurations and the values Math.random() can produce.          *)
(***************************************************************************)
C213220 == <<"#", "2", "1", "3", "2", "2", "0">>
C344e41 == <<"#", "3", "4", "4", "e", "4", "1">>
Cdad7cd == <<"#", "d", "a", "d", "7", "c", "d">>
Deg90 == <<"9", "0">> \o DegSuffix
Deg45 == <<"4", "5">> \o DegSuffix

ConfigSolid ==
    [colorCount |-> 1, colors |-> <<Cdad7cd>>,
     gradientDirection |-> Deg45, useRandomColors |-> FALSE]
ConfigGradient ==
    [colorCount |-> 2, colors |-> <<C213220, C344e41>>,
     gradientDirection |-> Deg90, useRandomColors |-> FALSE]
ConfigRandom ==
    [colorCount |-> 2, colors |-> <<C213220, C344e41>>,
     gradientDirection |-> Deg90, useRandomColors |-> TRUE]

\* A stored config whose resolved color list is empty.
ConfigEmpty ==
    [colorCount |-> 0, colors |-> <<Cdad7cd>>,
     gradientDirection |-> Deg90, useRandomColors |-> FALSE]

\* A stored config without its gradientDirection property.
ConfigNoDirection ==
    [colorCount |-> 2, colors |-> <<C213220, C344e41>>,
     gradientDirection |-> Undefined, useRandomColors |-> FALSE]

\* A config with a direction that is no degree value and a colorCount larger
\* than its color list.
Blue == <<"b", "l", "u", "e">>
ConfigBadDirection ==
    [colorCount |-> 5, colors |-> <<C213220, C344e41>>,
     gradientDirection |-> Blue, useRandomColors |-> FALSE]

\* Configs that are empty or malformed.
EdgeConfigs == {ConfigEmpty, ConfigNoDirection, ConfigBadDirection}

Configs == {ConfigSolid, ConfigGradient, ConfigRandom} \cup EdgeConfigs

\* Outcomes of the Math.random() calls of one compile drawn in the model:
\* the values of Math.floor(Math.random() * 16777215), one per color, and of
\* Math.floor(Math.random() * 360).
RandomSamples ==
    {[colors |-> <<0, 16777214>>, angle |-> 0],
     [colors |-> <<16777214, 0>>, angle |-> 359],
     [colors |-> <<1193046, 1193046>>, angle |-> 90]}

\* The random numbers a compile of `config` can draw (none when
\* useRandomColors is false).
RandomDraws(config) ==
    IF config.useRandomColors
    THEN {[colors |-> SubSeq(r.colors, 1, config.colorCount), angle |-> r.angle] :
              r \in RandomSamples}
    ELSE {[colors |-> <<>>, angle |-> 0]}

(***************************************************************************)
(* content/index.ts: generateThemeCSS                                      *)
(***************************************************************************)
\* config.colors.slice(0, count): a negative count is an offset from the end.
Slice(s, count) ==
    SubSeq(s, 1, IF count < 0 THEN Max(Len(s) + count, 0) ELSE Min(Len(s), count))

\* Mutant: the random color is not padded to six digits.
RandomHexUnpadded(n) == <<"#">> \o NumToString(n, 16)

\* `#${n.toString(16).padStart(6, '0')}`
RandomHex(n) == <<"#">> \o PadStart(NumToString(n, 16), 6, "0")

\* Mutant: an empty palette is padded with a black default color.
colorsToUsePadded(config, rnd) ==
    LET cols == IF config.useRandomColors
                THEN [i \in 1..config.colorCount |-> RandomHex(rnd.colors[i])]
                ELSE Slice(config.colors, config.colorCount)
    IN  IF Len(cols) = 0 THEN <<Black>> ELSE cols

\* Mutant: a stored palette shorter than colorCount is filled up to colorCount
\* with a black default color.
colorsToUseFilled(config, rnd) ==
    IF config.useRandomColors
    THEN [i \in 1..config.colorCount |-> RandomHex(rnd.colors[i])]
    ELSE [i \in 1..config.colorCount |->
             IF i <= Len(config.colors) THEN config.colors[i] ELSE Black]

colorsToUse(config, rnd) ==
    IF config.useRandomColors
    THEN [i \in 1..config.colorCount |-> RandomHex(rnd.colors[i])]
    ELSE Slice(config.colors, config.colorCount)

\* Mutant: the stored direction is used as it is.
directionOfUnsanitized(config, rnd) ==
    IF config.useRandomColors
    THEN NumToString(rnd.angle, 10) \o DegSuffix
    ELSE config.gradientDirection

directionOf(config, rnd) ==
    IF config.useRandomColors
    THEN NumToString(rnd.angle, 10) \o DegSuffix
    ELSE sanitizeGradientDirection(config.gradientDirection)

RECURSIVE Join(_, _)
\* colorsToUse.join(sep)
Join(strings, sep) ==
    IF Len(strings) = 0 THEN <<>>
    ELSE IF Len(strings) = 1 THEN strings[1]
    ELSE strings[1] \o sep \o Join(Tail(strings), sep)

CommaSpace == <<",", " ">>
LinearGradientOpen ==
    <<"l", "i", "n", "e", "a", "r", "-", "g", "r", "a", "d", "i", "e", "n", "t", "(">>

\* Mutant: a gradient is emitted for a single color too.
backgroundValueAlwaysGradient(colors, direction) ==
    LinearGradientOpen \o direction \o CommaSpace \o Join(colors, CommaSpace) \o <<")">>

\* `linear-gradient(${direction}, ${colorsStr})` or mainColor
backgroundValue(colors, direction) ==
    IF Len(colors) > 1
    THEN LinearGradientOpen \o direction \o CommaSpace \o Join(colors, CommaSpace)
             \o <<")">>
    ELSE colors[1]

\* Mutant: the variants are derived from the last color.
mainColorOfLast(colors) == colors[Len(colors)]

\* `const mainColor = colorsToUse[0]`
mainColorOf(colors) == colors[1]

\* Mutant: the base-color amount does not follow the mode.
baseColorAmountFixed(isDark) == "70.4%"

\* `isDark ? 70.4 : 15.2`, followed by "%" in the template
baseColorAmountOf(isDark) == IF isDark THEN "70.4%" ELSE "15.2%"

\* `isDark ? 30 : 40`, followed by "%" in the template
textColorAmountOf(isDark) == IF isDark THEN "30%" ELSE "40%"

generateThemeCSS(config, classes, rnd) ==
    LET isDark == detectThemeMode(classes) = "dark"
        cols == colorsToUse(config, rnd)
    IN  IF Len(cols) = 0 THEN EmptyCss
        ELSE IF directionOf(config, rnd) = TypeError THEN Thrown
        ELSE LET mainColor == mainColorOf(cols)
                 darkVariant == adjustColor(mainColor, -35)
                 lightVariant == adjustColor(mainColor, 130)
             IN  [background |-> backgroundValue(cols, directionOf(config, rnd)),
                  baseColorDark |-> darkVariant,
                  textColorDark |-> getTextColor(darkVariant),
                  baseColorLight |-> lightVariant,
                  textColorLight |-> getTextColor(lightVariant),
                  baseColorAmount |-> baseColorAmountOf(isDark),
                  textColorAmount |-> textColorAmountOf(isDark)]

\* generateThemeCSS tabulated over the inputs the model can pass to it.
CompileInputs ==
    UNION {{<<c, cls, r>> : cls \in SUBSET (HostTokens \cup {THEME_CLASS_NAME}),
                            r \in RandomDraws(c)} : c \in Configs}
CompiledCss == [k \in CompileInputs |-> generateThemeCSS(k[1], k[2], k[3])]

(***************************************************************************)
(* State.                                                                  *)
(***************************************************************************)
VARIABLES
    head,             \* document.head exists
    rootClasses,      \* class tokens of document.documentElement
    styleCount,       \* number of elements with id STYLE_ELEMENT_ID in the document
    styleText,        \* textContent of the element getElementById finds
    store,            \* chrome.storage.sync[THEME_CONFIG_KEY]
    mainPc,           \* position of main(): "start", "reading", "replied", "done"
    savedConfig,      \* result of getThemeConfig() awaited by main()
    observing,        \* the MutationObserver is registered
    mutationPending,  \* the observer holds undelivered mutation records
    handlers,         \* handleMessages calls suspended at `await setThemeConfig`
    delivered,        \* number of runtime messages delivered so far
    lastDelivered,    \* config of the most recent updateTheme message
    handled,          \* updateTheme handlers resumed after their await
    styleSource,      \* config the current style text was compiled from
    lastCompiled,     \* text returned by the most recent generateThemeCSS call
    compileCount,     \* calls of generateThemeCSS so far
    writeCount,       \* assignments to styleElement.textContent so far
    applyCalls,       \* calls of applyTheme so far
    hostOps,          \* mutations the host page has performed
    lastEvent,        \* the event handled by the last step
    probe             \* the call under observation: its arguments and result

dom == <<head, rootClasses, styleCount, styleText>>
counters == <<compileCount, writeCount, applyCalls, styleSource, lastCompiled>>
channel == <<delivered, lastDelivered>>
vars == <<head, rootClasses, styleCount, styleText, store, mainPc, savedConfig,
          observing, mutationPending, handlers, delivered, lastDelivered, handled,
          styleSource, lastCompiled, compileCount, writeCount, applyCalls, hostOps,
          lastEvent, probe>>

\* No call is under observation.
NoProbe == [fn |-> "none"]

Messages ==
    [action : {"updateTheme"}, config : {ConfigSolid, ConfigRandom}]
        \cup {[action |-> "checkUpdate", config |-> ConfigSolid]}

Init ==
    /\ head \in BOOLEAN
    /\ rootClasses \in {{}, {"theme-light"}}
    /\ styleCount = 0
    /\ styleText = NoText
    /\ store \in {Null, ConfigGradient}
    /\ mainPc = "start"
    /\ savedConfig = Null
    /\ observing = FALSE
    /\ mutationPending = FALSE
    /\ handlers = {}
    /\ delivered = 0
    /\ lastDelivered = Null
    /\ handled = 0
    /\ styleSource = Null
    /\ lastCompiled = NoText
    /\ compileCount = 0
    /\ writeCount = 0
    /\ applyCalls = 0
    /\ hostOps = 0
    /\ lastEvent = "load"
    /\ probe = NoProbe

(***************************************************************************)
(* content/index.ts: applyTheme                                            *)
(***************************************************************************)
\* Mutant: a new style element is appended on every apply.
NeedsNewElementAlways(count) == TRUE

\* `if (!styleElement)` after document.getElementById(STYLE_ELEMENT_ID)
NeedsNewElement(count) == count = 0

\* Mutant: applyTheme goes on without document.head.
HeadMissingNever(h) == FALSE

\* `if (!head) return`
HeadMissing(h) == ~h

\* Mutant: the class is toggled.
classListToggle(classes, token) ==
    IF token \in classes THEN classes \ {token} ELSE classes \cup {token}

\* classList.add(token)
classListAdd(classes, token) == classes \cup {token}

\* `styleElement.textContent = cssText`
textContentAssign(prior, cssText) == cssText

\* Mutant: the CSS is generated twice per apply (once to compare with the
\* current text, once to write).
applyThemeTwice(config, rnd) ==
    /\ applyCalls' = applyCalls + 1
    /\ UNCHANGED head
    /\ IF HeadMissing(head)
       THEN UNCHANGED <<rootClasses, styleCount, styleText, styleSource,
                        lastCompiled, compileCount, writeCount, mutationPending>>
       ELSE /\ styleCount' = IF NeedsNewElement(styleCount)
                             THEN styleCount + 1 ELSE styleCount
            /\ compileCount' = compileCount + 2
            /\ IF CompiledCss[<<config, rootClasses, rnd>>] = Thrown
               THEN \* the exception leaves applyTheme before the write
                    /\ styleText' = IF NeedsNewElement(styleCount)
                                    THEN EmptyCss ELSE styleText
                    /\ UNCHANGED <<lastCompiled, writeCount, styleSource,
                                   rootClasses, mutationPending>>
               ELSE /\ styleText' = textContentAssign(styleText,
                                        CompiledCss[<<config, rootClasses, rnd>>])
                    /\ lastCompiled' = CompiledCss[<<config, rootClasses, rnd>>]
                    /\ writeCount' = writeCount + 1
                    /\ styleSource' = config
                    /\ rootClasses' = classListAdd(rootClasses, THEME_CLASS_NAME)
                    /\ mutationPending' = (mutationPending \/ observing)

\* applyTheme(config) ends with an exception: generateThemeCSS throws.
applyThrows(config, rnd) == head /\ CompiledCss[<<config, rootClasses, rnd>>] = Thrown

\* applyTheme(config); rnd are the random numbers its compile draws.  The
\* classList.add queues a mutation record when the observer is registered.
applyTheme(config, rnd) ==
    /\ applyCalls' = applyCalls + 1
    /\ UNCHANGED head
    /\ IF HeadMissing(head)
       THEN UNCHANGED <<rootClasses, styleCount, styleText, styleSource,
                        lastCompiled, compileCount, writeCount, mutationPending>>
       ELSE /\ styleCount' = IF NeedsNewElement(styleCount)
                             THEN styleCount + 1 ELSE styleCount
            /\ compileCount' = compileCount + 1
            /\ IF CompiledCss[<<config, rootClasses, rnd>>] = Thrown
               THEN \* the exception leaves applyTheme before the write
                    /\ styleText' = IF NeedsNewElement(styleCount)
                                    THEN EmptyCss ELSE styleText
                    /\ UNCHANGED <<lastCompiled, writeCount, styleSource,
                                   rootClasses, mutationPending>>
               ELSE /\ styleText' = textContentAssign(styleText,
                                        CompiledCss[<<config, rootClasses, rnd>>])
                    /\ lastCompiled' = CompiledCss[<<config, rootClasses, rnd>>]
                    /\ writeCount' = writeCount + 1
                    /\ styleSource' = config
                    /\ rootClasses' = classListAdd(rootClasses, THEME_CLASS_NAME)
                    /\ mutationPending' = (mutationPending \/ observing)

(***************************************************************************)
(* shared/storage.ts                                                       *)
(***************************************************************************)
\* getThemeConfig(): the stored value, or null when it is missing or the
\* read throws.
getThemeConfig(stored, ok) == IF ok /\ stored # Null THEN stored ELSE Null

\* Mutant: setThemeConfig without its try/catch.
setThemeConfigNoCatch(ok) == IF ok THEN "resolved" ELSE "rejected"

\* setThemeConfig(): how the returned promise settles when
\* chrome.storage.sync.set fulfils (ok) or rejects.
setThemeConfig(ok) ==
    IF ok THEN "resolved"      \* the try block completes
    ELSE "resolved"            \* the catch block logs and returns

(***************************************************************************)
(* content/index.ts: main                                                  *)
(***************************************************************************)
\* main() up to `await getThemeConfig()`: the message listener is registered.
Main ==
    /\ UNCHANGED probe
    /\ mainPc = "start"
    /\ mainPc' = "reading"
    /\ lastEvent' = "main"
    /\ UNCHANGED <<dom, store, savedConfig, observing, mutationPending, handlers,
                   channel, handled, counters, hostOps>>

\* chrome.storage.sync.get runs in the browser and reads the store.
StorageGet(ok) ==
    /\ UNCHANGED probe
    /\ mainPc = "reading"
    /\ mainPc' = "replied"
    /\ savedConfig' = getThemeConfig(store, ok)
    /\ lastEvent' = "storageGet"
    /\ UNCHANGED <<dom, store, observing, mutationPending, handlers, channel,
                   handled, counters, hostOps>>

\* `if (savedConfig)`
ShouldApplySaved(saved) == saved # Null

\* Mutant: main() falls back to a default config when none is saved.
MainResumeDefault ==
    /\ UNCHANGED probe
    /\ mainPc = "replied"
    /\ ~mutationPending
    /\ mainPc' = "done"
    /\ observing' = TRUE
    /\ lastEvent' = "mainResumed"
    /\ LET config == IF savedConfig # Null THEN savedConfig ELSE ConfigGradient
       IN  \E rnd \in RandomDraws(config) : applyTheme(config, rnd)
    /\ UNCHANGED <<store, savedConfig, handlers, channel, handled, hostOps>>

\* main() after the await: apply the saved config, register the observer.
MainResume ==
    /\ UNCHANGED probe
    /\ mainPc = "replied"
    /\ ~mutationPending
    /\ mainPc' = "done"
    /\ lastEvent' = "mainResumed"
    /\ IF ShouldApplySaved(savedConfig)
       THEN \E rnd \in RandomDraws(savedConfig) :
                /\ applyTheme(savedConfig, rnd)
                \* an exception of applyTheme ends main() before
                \* initializePersistenceObserver()
                /\ observing' = ~applyThrows(savedConfig, rnd)
       ELSE /\ UNCHANGED <<dom, counters, mutationPending>>
            /\ observing' = TRUE
    /\ UNCHANGED <<store, savedConfig, handlers, channel, handled, hostOps>>

(***************************************************************************)
(* content/index.ts: handleMessages                                        *)
(***************************************************************************)
\* Mutant: the action tag is not checked.
IsUpdateThemeAny(message) == TRUE

\* `message.action === 'updateTheme'`
IsUpdateTheme(message) == message.action = "updateTheme"

\* Mutant: the handler applies the theme on receipt and does not wait for
\* the persist.
handleMessagesSync(message) ==
    /\ UNCHANGED probe
    /\ mainPc # "start"
    /\ ~mutationPending
    /\ delivered < MaxMessages
    /\ delivered' = delivered + 1
    /\ IF IsUpdateTheme(message)
       THEN /\ lastDelivered' = message.config
            /\ lastEvent' = "updateTheme"
            /\ store' = message.config
            /\ handled' = handled + 1
            /\ \E rnd \in RandomDraws(message.config) : applyTheme(message.config, rnd)
       ELSE /\ UNCHANGED <<lastDelivered, store, handled, dom, counters,
                           mutationPending>>
            /\ lastEvent' = "ignoredMessage"
    /\ UNCHANGED <<mainPc, savedConfig, observing, handlers, hostOps>>

\* handleMessages(message) up to `await setThemeConfig(config)`.
handleMessages(message) ==
    /\ UNCHANGED probe
    /\ mainPc # "start"
    /\ ~mutationPending
    /\ delivered < MaxMessages
    /\ delivered' = delivered + 1
    /\ IF IsUpdateTheme(message)
       THEN /\ handlers' = handlers \cup
                   {[id |-> delivered + 1, config |-> message.config]}
            /\ lastDelivered' = message.config
            /\ lastEvent' = "updateTheme"
       ELSE /\ UNCHANGED <<handlers, lastDelivered>>
            /\ lastEvent' = "ignoredMessage"
    /\ UNCHANGED <<dom, store, mainPc, savedConfig, observing, mutationPending,
                   handled, counters, hostOps>>

\* chrome.storage.sync.set of handler h settles (ok: fulfilled, otherwise
\* rejected) and handleMessages resumes after its await.
handleMessagesResume(h, ok) ==
    /\ UNCHANGED probe
    /\ h \in handlers
    /\ ~mutationPending
    /\ handlers' = handlers \ {h}
    /\ store' = IF ok THEN h.config ELSE store
    /\ lastEvent' = IF ok THEN "persisted" ELSE "persistFailed"
    /\ IF setThemeConfig(ok) = "resolved"
       THEN \E rnd \in RandomDraws(h.config) : applyTheme(h.config, rnd)
       ELSE UNCHANGED <<dom, counters, mutationPending>>
    /\ handled' = handled + 1
    /\ UNCHANGED <<mainPc, savedConfig, observing, channel, hostOps>>

(***************************************************************************)
(* content/index.ts: initializePersistenceObserver                         *)
(***************************************************************************)
\* Mutant: the callback re-applies the theme (compiling it again) when the
\* class or the style element is missing.
ObserverCallbackReapply ==
    /\ UNCHANGED probe
    /\ observing
    /\ mutationPending
    /\ IF (THEME_CLASS_NAME \notin rootClasses \/ styleCount = 0) /\ styleSource # Null
       THEN /\ \E rnd \in RandomDraws(styleSource) : applyTheme(styleSource, rnd)
            /\ lastEvent' = "observerRestored"
       ELSE /\ UNCHANGED <<dom, counters>>
            /\ mutationPending' = FALSE
            /\ lastEvent' = "observerIdle"
    /\ UNCHANGED <<store, mainPc, savedConfig, observing, handlers, channel,
                   handled, hostOps>>

\* Mutant: the callback adds the class whenever the style element exists,
\* without testing classList.contains first.
ObserverCallbackAlwaysAdds ==
    /\ UNCHANGED probe
    /\ observing
    /\ mutationPending
    /\ IF styleCount > 0
       THEN /\ rootClasses' = classListAdd(rootClasses, THEME_CLASS_NAME)
            /\ mutationPending' = TRUE
            /\ lastEvent' = "observerRestored"
       ELSE /\ rootClasses' = rootClasses
            /\ mutationPending' = FALSE
            /\ lastEvent' = "observerIdle"
    /\ UNCHANGED <<head, styleCount, styleText, store, mainPc, savedConfig,
                   observing, handlers, channel, handled, counters, hostOps>>

\* Mutant: the callback restores the class without looking for the style
\* element.
ObserverCallbackNoStyleCheck ==
    /\ UNCHANGED probe
    /\ observing
    /\ mutationPending
    /\ IF THEME_CLASS_NAME \notin rootClasses
       THEN /\ rootClasses' = classListAdd(rootClasses, THEME_CLASS_NAME)
            /\ mutationPending' = TRUE
            /\ lastEvent' = "observerRestored"
       ELSE /\ rootClasses' = rootClasses
            /\ mutationPending' = FALSE
            /\ lastEvent' = "observerIdle"
    /\ UNCHANGED <<head, styleCount, styleText, store, mainPc, savedConfig,
                   observing, handlers, channel, handled, counters, hostOps>>

\* The MutationObserver callback, run for the queued class mutations.
ObserverCallback ==
    /\ UNCHANGED probe
    /\ observing
    /\ mutationPending
    /\ IF THEME_CLASS_NAME \notin rootClasses /\ styleCount > 0
       THEN /\ rootClasses' = classListAdd(rootClasses, THEME_CLASS_NAME)
            /\ mutationPending' = TRUE
            /\ lastEvent' = "observerRestored"
       ELSE /\ rootClasses' = rootClasses
            /\ mutationPending' = FALSE
            /\ lastEvent' = "observerIdle"
    /\ UNCHANGED <<head, styleCount, styleText, store, mainPc, savedConfig,
                   observing, handlers, channel, handled, counters, hostOps>>

(***************************************************************************)
(* The host page.                                                          *)
(***************************************************************************)
\* The host rewrites the root's class attribute without the theme class.
HostRemoveClass ==
    /\ UNCHANGED probe
    /\ hostOps < MaxHostOps
    /\ THEME_CLASS_NAME \in rootClasses
    /\ rootClasses' = rootClasses \ {THEME_CLASS_NAME}
    /\ mutationPending' = (mutationPending \/ observing)
    /\ hostOps' = hostOps + 1
    /\ lastEvent' = "hostRemovedClass"
    /\ UNCHANGED <<head, styleCount, styleText, store, mainPc, savedConfig,
                   observing, handlers, channel, handled, counters>>

\* The host removes the style element from the document (no class mutation).
HostRemoveStyle ==
    /\ UNCHANGED probe
    /\ hostOps < MaxHostOps
    /\ styleCount > 0
    /\ styleCount' = styleCount - 1
    /\ styleText' = IF styleCount = 1 THEN NoText ELSE styleText
    /\ hostOps' = hostOps + 1
    /\ lastEvent' = "hostRemovedStyle"
    /\ UNCHANGED <<head, rootClasses, store, mainPc, savedConfig, observing,
                   mutationPending, handlers, channel, handled, counters>>

\* The host switches its own theme tokens on the root.
HostSetMode(tokens) ==
    /\ UNCHANGED probe
    /\ hostOps < MaxHostOps
    /\ tokens # rootClasses \cap HostTokens
    /\ rootClasses' = (rootClasses \ HostTokens) \cup tokens
    /\ mutationPending' = (mutationPending \/ observing)
    /\ hostOps' = hostOps + 1
    /\ lastEvent' = "hostSetMode"
    /\ UNCHANGED <<head, styleCount, styleText, store, mainPc, savedConfig,
                   observing, handlers, channel, handled, counters>>

\* The parser creates document.head.
HeadParsed ==
    /\ UNCHANGED probe
    /\ ~head
    /\ head' = TRUE
    /\ lastEvent' = "headParsed"
    /\ UNCHANGED <<rootClasses, styleCount, styleText, store, mainPc, savedConfig,
                   observing, mutationPending, handlers, channel, handled, counters,
                   hostOps>>

Next ==
    \/ Main
    \/ \E ok \in BOOLEAN : StorageGet(ok)
    \/ MainResume
    \/ \E message \in Messages : handleMessages(message)
    \/ \E h \in handlers, ok \in BOOLEAN : handleMessagesResume(h, ok)
    \/ ObserverCallback
    \/ HostRemoveClass
    \/ HostRemoveStyle
    \/ \E tokens \in {{"theme-dark"}, {"theme-light"}} : HostSetMode(tokens)
    \/ HeadParsed

Spec == Init /\ [][Next]_vars

(***************************************************************************)
(* The same program fed with empty and malformed configs: the store and    *)
(* the messages hold what chrome.storage.sync and the popup can hand over  *)
(* without a check (getThemeConfig and handleMessages validate nothing).   *)
(***************************************************************************)
EdgeMessages ==
    [action : {"updateTheme"}, config : {ConfigSolid, ConfigEmpty, ConfigNoDirection}]

InitEdge ==
    /\ head \in BOOLEAN
    /\ rootClasses = {}
    /\ styleCount = 0
    /\ styleText = NoText
    /\ store \in EdgeConfigs
    /\ mainPc = "start"
    /\ savedConfig = Null
    /\ observing = FALSE
    /\ mutationPending = FALSE
    /\ handlers = {}
    /\ delivered = 0
    /\ lastDelivered = Null
    /\ handled = 0
    /\ styleSource = Null
    /\ lastCompiled = NoText
    /\ compileCount = 0
    /\ writeCount = 0
    /\ applyCalls = 0
    /\ hostOps = 0
    /\ lastEvent = "load"
    /\ probe = NoProbe

NextEdge ==
    \/ Main
    \/ \E ok \in BOOLEAN : StorageGet(ok)
    \/ MainResume
    \/ \E message \in EdgeMessages : handleMessages(message)
    \/ \E h \in handlers, ok \in BOOLEAN : handleMessagesResume(h, ok)
    \/ ObserverCallback
    \/ HostRemoveClass
    \/ HostRemoveStyle
    \/ \E tokens \in {{"theme-dark"}, {"theme-light"}} : HostSetMode(tokens)
    \/ HeadParsed

EdgeSpec == InitEdge /\ [][NextEdge]_vars

TypeOK ==
    /\ head \in BOOLEAN
    /\ rootClasses \subseteq HostTokens \cup {THEME_CLASS_NAME}
    /\ styleCount \in 0..(MaxMessages + 1)
    /\ store \in Configs \cup {Null}
    /\ mainPc \in {"start", "reading", "replied", "done"}
    /\ savedConfig \in Configs \cup {Null}
    /\ observing \in BOOLEAN
    /\ mutationPending \in BOOLEAN
    /\ handlers \subseteq [id : 1..MaxMessages, config : Configs]
    /\ delivered \in 0..MaxMessages
    /\ hostOps \in 0..MaxHostOps
    /\ handled \in 0..MaxMessages
    /\ compileCount \in 0..(MaxMessages + 1)
    /\ writeCount \in 0..compileCount
    /\ applyCalls \in compileCount..(MaxMessages + 1)

(***************************************************************************)
(* content.js, the legacy content script.  Its global themeConfig is       *)
(* savedConfig; its observer is registered while the script loads, before  *)
(* the callback of loadSavedConfig runs.                                   *)
(***************************************************************************)
LegacyConfigs == {ConfigSolid, ConfigGradient, ConfigRandom}

\* randomHexColor(): "#" + ((1 << 24) + (r << 16) + (g << 8) + b)
\* .toString(16).slice(1), n being (r << 16) + (g << 8) + b.
randomHexColor(n) == <<"#">> \o Tail(NumToString(16777216 + n, 16))

\* `config.colorCount || config.colors.length || 2`
legacyCount(config) ==
    IF config.colorCount # 0 THEN config.colorCount
    ELSE IF Len(config.colors) # 0 THEN Len(config.colors)
    ELSE 2

\* generateThemeCSS(config) of content.js
legacyGenerateThemeCSS(config, classes, rnd) ==
    LET isDark == detectThemeMode(classes) = "dark"
        cols == IF config.useRandomColors
                THEN [i \in 1..legacyCount(config) |-> randomHexColor(rnd.colors[i])]
                ELSE Slice(config.colors, legacyCount(config))
        direction == IF config.useRandomColors
                     THEN NumToString(rnd.angle, 10) \o DegSuffix
                     ELSE config.gradientDirection
        mainColor == IF Len(cols) > 0 THEN cols[1] ELSE Black
        darkVariant == adjustColor(mainColor, -35)
        lightVariant == adjustColor(mainColor, 130)
    IN  [background |-> LinearGradientOpen \o direction \o CommaSpace
                            \o Join(cols, CommaSpace) \o <<")">>,
         baseColorDark |-> darkVariant,
         textColorDark |-> getTextColor(darkVariant),
         baseColorLight |-> lightVariant,
         textColorLight |-> getTextColor(lightVariant),
         baseColorAmount |-> baseColorAmountOf(isDark),
         textColorAmount |-> textColorAmountOf(isDark)]

\* The legacy generateThemeCSS tabulated over the inputs the model passes.
LegacyCompileInputs ==
    UNION {{<<c, cls, r>> : cls \in SUBSET (HostTokens \cup {THEME_CLASS_NAME}),
                            r \in RandomDraws(c)} : c \in LegacyConfigs}
LegacyCompiledCss ==
    [k \in LegacyCompileInputs |-> legacyGenerateThemeCSS(k[1], k[2], k[3])]

\* applyCustomCSS() with themeConfig = config: every style element of the
\* script is removed and a new one appended, then the class is added.
applyCustomCSS(config, rnd) ==
    /\ applyCalls' = applyCalls + 1
    /\ UNCHANGED head
    /\ IF config = Null \/ HeadMissing(head)
       THEN UNCHANGED <<rootClasses, styleCount, styleText, styleSource,
                        lastCompiled, compileCount, writeCount, mutationPending>>
       ELSE /\ styleCount' = 1
            /\ styleText' = LegacyCompiledCss[<<config, rootClasses, rnd>>]
            /\ lastCompiled' = LegacyCompiledCss[<<config, rootClasses, rnd>>]
            /\ compileCount' = compileCount + 1
            /\ writeCount' = writeCount + 1
            /\ styleSource' = config
            /\ rootClasses' = classListAdd(rootClasses, THEME_CLASS_NAME)
            /\ mutationPending' = (mutationPending \/ observing)

\* The random numbers a call of applyCustomCSS can draw.
LegacyDraws(config) ==
    IF config = Null THEN {[colors |-> <<>>, angle |-> 0]} ELSE RandomDraws(config)

InitLegacy ==
    /\ head \in BOOLEAN
    /\ rootClasses \in {{}, {"theme-light"}}
    /\ styleCount = 0
    /\ styleText = NoText
    /\ store \in {Null, ConfigGradient, ConfigRandom}
    /\ mainPc = "reading"
    /\ savedConfig = Null
    /\ observing = TRUE
    /\ mutationPending = FALSE
    /\ handlers = {}
    /\ delivered = 0
    /\ lastDelivered = Null
    /\ handled = 0
    /\ styleSource = Null
    /\ lastCompiled = NoText
    /\ compileCount = 0
    /\ writeCount = 0
    /\ applyCalls = 0
    /\ hostOps = 0
    /\ lastEvent = "load"
    /\ probe = NoProbe

\* The callback of chrome.storage.sync.get in loadSavedConfig().
loadSavedConfig ==
    /\ UNCHANGED probe
    /\ mainPc = "reading"
    /\ ~mutationPending
    /\ mainPc' = "done"
    /\ lastEvent' = "mainResumed"
    /\ IF store # Null
       THEN /\ savedConfig' = store
            /\ \E rnd \in RandomDraws(store) : applyCustomCSS(store, rnd)
       ELSE UNCHANGED <<savedConfig, dom, counters, mutationPending>>
    /\ UNCHANGED <<store, observing, handlers, channel, handled, hostOps>>

\* The onMessage listener and applyConfigFromPopup up to
\* chrome.storage.sync.set.
applyConfigFromPopup(message) ==
    /\ UNCHANGED probe
    /\ ~mutationPending
    /\ delivered < MaxMessages
    /\ delivered' = delivered + 1
    /\ IF IsUpdateTheme(message)
       THEN /\ savedConfig' = message.config
            /\ handlers' = handlers \cup
                   {[id |-> delivered + 1, config |-> message.config]}
            /\ lastDelivered' = message.config
            /\ lastEvent' = "updateTheme"
       ELSE /\ UNCHANGED <<savedConfig, handlers, lastDelivered>>
            /\ lastEvent' = "ignoredMessage"
    /\ UNCHANGED <<dom, store, mainPc, observing, mutationPending, handled,
                   counters, hostOps>>

\* The callback of chrome.storage.sync.set of call h: applyCustomCSS() with
\* the themeConfig of that moment.
legacySetCallback(h, ok) ==
    /\ UNCHANGED probe
    /\ h \in handlers
    /\ ~mutationPending
    /\ handlers' = handlers \ {h}
    /\ store' = IF ok THEN h.config ELSE store
    /\ lastEvent' = IF ok THEN "persisted" ELSE "persistFailed"
    /\ \E rnd \in LegacyDraws(savedConfig) : applyCustomCSS(savedConfig, rnd)
    /\ handled' = handled + 1
    /\ UNCHANGED <<mainPc, savedConfig, observing, channel, hostOps>>

\* The MutationObserver callback of content.js.
legacyObserverCallback ==
    /\ UNCHANGED probe
    /\ observing
    /\ mutationPending
    /\ IF THEME_CLASS_NAME \notin rootClasses \/ styleCount = 0
       THEN /\ \E rnd \in LegacyDraws(savedConfig) :
                   /\ applyCustomCSS(savedConfig, rnd)
                   /\ mutationPending' =
                          (savedConfig # Null /\ ~HeadMissing(head))
            /\ lastEvent' = "observerRestored"
       ELSE /\ UNCHANGED <<dom, counters>>
            /\ mutationPending' = FALSE
            /\ lastEvent' = "observerIdle"
    /\ UNCHANGED <<store, mainPc, savedConfig, handlers, channel, handled,
                   observing, hostOps>>

NextLegacy ==
    \/ loadSavedConfig
    \/ \E message \in Messages : applyConfigFromPopup(message)
    \/ \E h \in handlers, ok \in BOOLEAN : legacySetCallback(h, ok)
    \/ legacyObserverCallback
    \/ HostRemoveClass
    \/ HostRemoveStyle
    \/ \E tokens \in {{"theme-dark"}, {"theme-light"}} : HostSetMode(tokens)
    \/ HeadParsed

LegacySpec == InitLegacy /\ [][NextLegacy]_vars

(***************************************************************************)
(* The pure functions, called on their own.  The content script's state is *)
(* at rest; probe holds the call: its arguments, and its result once the   *)
(* call has returned.                                                      *)
(***************************************************************************)
scriptVars == <<head, rootClasses, styleCount, styleText, store, mainPc, savedConfig,
                observing, mutationPending, handlers, delivered, lastDelivered,
                handled, styleSource, lastCompiled, compileCount, writeCount,
                applyCalls, hostOps, lastEvent>>

ScriptAtRest ==
    /\ head = FALSE
    /\ rootClasses = {}
    /\ styleCount = 0
    /\ styleText = NoText
    /\ store = Null
    /\ mainPc = "start"
    /\ savedConfig = Null
    /\ observing = FALSE
    /\ mutationPending = FALSE
    /\ handlers = {}
    /\ delivered = 0
    /\ lastDelivered = Null
    /\ handled = 0
    /\ styleSource = Null
    /\ lastCompiled = NoText
    /\ compileCount = 0
    /\ writeCount = 0
    /\ applyCalls = 0
    /\ hostOps = 0
    /\ lastEvent = "load"

\* A value that the call has not computed (yet).
NotComputed == <<"not-computed">>

\* Direction strings: up to MaxDigits decimal digits between a prefix and a
\* suffix.
MaxDigits == 3
DigitSamples == {"0", "3", "4", "5", "9"}
DigitStrings == UNION {[1..n -> DigitSamples] : n \in 0..MaxDigits}
DirPrefixes == {<<>>, <<"-">>, <<" ">>, <<"a">>}
DirSuffixes ==
    {DegSuffix, <<>>, <<"d", "e">>, <<"D", "E", "G">>, DegSuffix \o <<";">>,
     DegSuffix \o <<"\n">>, Blue}

InitSanitize ==
    /\ ScriptAtRest
    /\ probe \in {[fn |-> "sanitizeGradientDirection", state |-> "called",
                    prefix |-> p, digits |-> d, suffix |-> x,
                    input |-> p \o d \o x, output |-> NotComputed] :
                       p \in DirPrefixes, d \in DigitStrings, x \in DirSuffixes}

\* sanitizeGradientDirection(probe.input) runs and returns.
SanitizeCall ==
    /\ probe.fn = "sanitizeGradientDirection"
    /\ probe.state = "called"
    /\ probe' = [probe EXCEPT !.state = "returned",
                              !.output = sanitizeGradientDirection(probe.input)]
    /\ UNCHANGED scriptVars

NextSanitize == SanitizeCall

SanitizeSpec == InitSanitize /\ [][NextSanitize]_vars

\* Configs passed to generateThemeCSS: colorCount and the length of colors
\* range over 0..MaxColorCount independently.
MaxColorCount == 3
ColorSamples == {C213220, C344e41, Cdad7cd}
Palettes == UNION {[1..n -> ColorSamples] : n \in 0..MaxColorCount}
Deg900 == <<"9", "0", "0">> \o DegSuffix
DirectionSamples == {Deg45, Deg90, Deg900, Blue, Undefined}
ModeSamples == {{}, {"theme-dark"}, {"theme-light"}}

CompileConfigs ==
    [colorCount : 0..MaxColorCount, colors : Palettes,
     gradientDirection : DirectionSamples, useRandomColors : {FALSE}]
    \cup
    {[colorCount |-> n, colors |-> v[1], gradientDirection |-> v[2],
      useRandomColors |-> TRUE] :
         n \in 0..MaxColorCount,
         v \in {<<<<>>, Undefined>>, <<<<C213220, C344e41>>, Deg90>>}}

\* Outcomes of Math.floor(Math.random() * 16777215) and of
\* Math.floor(Math.random() * 360) drawn in the model.
RandomColorSamples == {0, 16777214}
AngleSamples == {0, 7, 359}
CompileDraws(config) ==
    IF config.useRandomColors
    THEN [colors : [1..config.colorCount -> RandomColorSamples], angle : AngleSamples]
    ELSE {[colors |-> <<>>, angle |-> 0]}

NoResult == [kind |-> "no-result"]

InitCompile ==
    /\ ScriptAtRest
    /\ probe \in {[fn |-> "generateThemeCSS", state |-> "called", calls |-> 1,
                    config |-> c, classes |-> m,
                    rnd |-> [colors |-> <<>>, angle |-> 0],
                    colors |-> NotComputed, direction |-> NotComputed,
                    output |-> NoResult, changed |-> FALSE] :
                       c \in CompileConfigs, m \in ModeSamples}

\* generateThemeCSS(probe.config) runs, with the root's classes being
\* probe.classes and its Math.random() calls returning rnd.  colors and
\* direction are its locals colorsToUse and direction; changed tells whether
\* the text differs from the one the previous call returned.
CompileCall(rnd) ==
    /\ probe.fn = "generateThemeCSS"
    /\ probe.state = "called"
    /\ LET cols == colorsToUse(probe.config, rnd)
           out == generateThemeCSS(probe.config, probe.classes, rnd)
       IN  probe' = [probe EXCEPT
                        !.state = "returned",
                        !.rnd = rnd,
                        !.colors = cols,
                        !.direction = IF Len(cols) = 0 THEN NotComputed
                                      ELSE directionOf(probe.config, rnd),
                        !.output = out,
                        !.changed = (probe.calls > 1 /\ out # probe.output)]
    /\ UNCHANGED scriptVars

\* The same config is compiled a second time.
CompileAgain ==
    /\ probe.fn = "generateThemeCSS"
    /\ probe.state = "returned"
    /\ probe.calls = 1
    /\ probe' = [probe EXCEPT !.state = "called", !.calls = probe.calls + 1]
    /\ UNCHANGED scriptVars

NextCompile ==
    \/ \E rnd \in CompileDraws(probe.config) : CompileCall(rnd)
    \/ CompileAgain

CompileSpec == InitCompile /\ [][NextCompile]_vars

\* detectThemeMode() called with the root carrying the tokens probe.classes.
InitDetect ==
    /\ ScriptAtRest
    /\ probe \in {[fn |-> "detectThemeMode", state |-> "called", classes |-> cls,
                    output |-> "none"] : cls \in SUBSET ClassTokens}

DetectCall ==
    /\ probe.fn = "detectThemeMode"
    /\ probe.state = "called"
    /\ probe' = [probe EXCEPT !.state = "returned",
                              !.output = detectThemeMode(probe.classes)]
    /\ UNCHANGED scriptVars

NextDetect == DetectCall

DetectSpec == InitDetect /\ [][NextDetect]_vars

\* Colors and amounts passed to adjustColor and getTextColor.  A channel is
\* two hex digits; MaxAmount is the largest shift applied.
MaxAmount == 300
ChannelSamples == {<<"0", "0">>, <<"0", "f">>, <<"8", "0">>, <<"F", "E">>, <<"f", "f">>}
AmountSamples == {-MaxAmount, -35, -1, 0, 1, 130, MaxAmount}
LevelSamples == {0, 127, 128, 129, 255}

\* The two hex digits of a channel value, and the value of two hex digits.
HexByte(v) == <<HexChars[(v \div 16) + 1], HexChars[(v % 16) + 1]>>
ByteVal(pair) == 16 * HexVal(pair[1]) + HexVal(pair[2])

InitColor ==
    /\ ScriptAtRest
    /\ probe \in
          {[fn |-> "adjustColor", state |-> "called", pound |-> p,
            r |-> cr, g |-> cg, b |-> cb,
            input |-> (IF p THEN <<"#">> ELSE <<>>) \o cr \o cg \o cb,
            amount |-> a, output |-> NotComputed] :
               p \in BOOLEAN, cr \in ChannelSamples, cg \in ChannelSamples,
               cb \in ChannelSamples, a \in AmountSamples}
          \cup
          {[fn |-> "getTextColor", state |-> "called", pound |-> TRUE,
            r |-> HexByte(vr), g |-> HexByte(vg), b |-> HexByte(vb),
            input |-> <<"#">> \o HexByte(vr) \o HexByte(vg) \o HexByte(vb),
            amount |-> 0, output |-> NotComputed] :
               vr \in LevelSamples, vg \in LevelSamples, vb \in LevelSamples}

\* adjustColor(probe.input, probe.amount) runs and returns.
AdjustCall ==
    /\ probe.fn = "adjustColor"
    /\ probe.state = "called"
    /\ probe' = [probe EXCEPT !.state = "returned",
                              !.output = adjustColor(probe.input, probe.amount)]
    /\ UNCHANGED scriptVars

\* getTextColor(probe.input) runs and returns.
TextColorCall ==
    /\ probe.fn = "getTextColor"
    /\ probe.state = "called"
    /\ probe' = [probe EXCEPT !.state = "returned",
                              !.output = getTextColor(probe.input)]
    /\ UNCHANGED scriptVars

NextColor ==
    \/ AdjustCall
    \/ TextColorCall

ColorSpec == InitColor /\ [][NextColor]_vars

(***************************************************************************)
(* shared/utils.ts: isNewerVersion, with semver's coerce and gt            *)
(***************************************************************************)
\* A version the library could not make out.
NoVersion == [kind |-> "no-version"]

\* Length of the run of decimal digits of s that starts at index d.
RECURSIVE RunLen(_, _)
RunLen(s, d) ==
    IF d > Len(s) THEN 0
    ELSE IF ~IsDecDigit(s[d]) THEN 0
    ELSE 1 + RunLen(s, d + 1)

\* semver's MAX_SAFE_COMPONENT_LENGTH and Number.MAX_SAFE_INTEGER.
MaxComponentLength == 16
MaxSafeInteger ==
    <<"9", "0", "0", "7", "1", "9", "9", "2", "5", "4", "7", "4", "0", "9", "9", "1">>

\* Order of two numbers written in decimal without leading zeros:
\* -1, 0 or 1 as a is below, equal to or above b.
RECURSIVE compareDigits(_, _)
compareDigits(a, b) ==
    IF Len(a) # Len(b) THEN (IF Len(a) < Len(b) THEN -1 ELSE 1)
    ELSE IF Len(a) = 0 THEN 0
    ELSE IF DecVal(Head(a)) # DecVal(Head(b))
         THEN (IF DecVal(Head(a)) < DecVal(Head(b)) THEN -1 ELSE 1)
    ELSE compareDigits(Tail(a), Tail(b))

\* The match of semver's COERCE expression
\*   (^|[^\d])(\d{1,16})(?:\.(\d{1,16}))?(?:\.(\d{1,16}))?(?:$|[^\d])
\* whose digits start at index d: the whole run of digits at d is the major
\* part; a "." and a run of 1 to 16 digits after it is the minor part, and
\* the same again the patch part; a part that is not there reads "0".
coerceMatchAt(s, d) ==
    LET l1 == RunLen(s, d)
        d2 == d + l1 + 1
        l2 == IF d + l1 <= Len(s) /\ s[d + l1] = "." THEN RunLen(s, d2) ELSE 0
        hasMinor == l2 >= 1 /\ l2 <= MaxComponentLength
        d3 == d2 + l2 + 1
        l3 == IF hasMinor /\ d2 + l2 <= Len(s) /\ s[d2 + l2] = "."
              THEN RunLen(s, d3) ELSE 0
        hasPatch == l3 >= 1 /\ l3 <= MaxComponentLength
    IN  [major |-> SubSeq(s, d, d + l1 - 1),
         minor |-> IF hasMinor THEN SubSeq(s, d2, d2 + l2 - 1) ELSE <<"0">>,
         patch |-> IF hasPatch THEN SubSeq(s, d3, d3 + l3 - 1) ELSE <<"0">>]

\* A numeric identifier of a strict version: no leading zero, and not above
\* Number.MAX_SAFE_INTEGER.
IsNumericIdentifier(digits) ==
    /\ Len(digits) >= 1
    /\ (Len(digits) > 1 => digits[1] # "0")
    /\ compareDigits(digits, MaxSafeInteger) <= 0

\* semver.coerce(version): the leftmost match of the COERCE expression, parsed
\* as a strict version; parse() answers null where the constructor throws.
coerce(version) ==
    LET starts == {d \in 1..Len(version) :
                      /\ IsDecDigit(version[d])
                      /\ (d = 1 \/ ~IsDecDigit(version[d - 1]))
                      /\ RunLen(version, d) <= MaxComponentLength}
    IN  IF starts = {} THEN NoVersion
        ELSE LET d == CHOOSE x \in starts : \A y \in starts : x <= y
                 m == coerceMatchAt(version, d)
             IN  IF \A part \in {m.major, m.minor, m.patch} :
                        IsNumericIdentifier(part)
                 THEN m ELSE NoVersion

\* Mutant: gt answers true for equal versions too.
gtOrEqual(a, b) ==
    LET cMajor == compareDigits(a.major, b.major)
        cMinor == compareDigits(a.minor, b.minor)
        cPatch == compareDigits(a.patch, b.patch)
    IN  IF cMajor # 0 THEN cMajor > 0
        ELSE IF cMinor # 0 THEN cMinor > 0
        ELSE cPatch >= 0

\* semver.gt(a, b): compare(a, b) > 0, by major, minor and patch in turn.
gt(a, b) ==
    LET cMajor == compareDigits(a.major, b.major)
        cMinor == compareDigits(a.minor, b.minor)
        cPatch == compareDigits(a.patch, b.patch)
    IN  IF cMajor # 0 THEN cMajor > 0
        ELSE IF cMinor # 0 THEN cMinor > 0
        ELSE cPatch > 0

\* isNewerVersion(current, latest)
isNewerVersion(current, latest) ==
    LET coercedCurrent == coerce(current)
        coercedLatest == coerce(latest)
    IN  IF coercedCurrent = NoVersion \/ coercedLatest = NoVersion
        THEN FALSE
        ELSE gt(coercedLatest, coercedCurrent)

(***************************************************************************)
(* The random color of generateThemeCSS, under its own specification: for  *)
(* a 24-bit value, whether some outcome of Math.random() makes the         *)
(* generator return it.                                                    *)
(***************************************************************************)
\* Math.floor(Math.random() * scale): Math.random() is in [0, 1), so the
\* product is below scale.
RandomFloor(scale) == 0..(scale - 1)

\* The largest 24-bit color value, #ffffff.
MaxColorValue == 16777215

\* The values asked for: the MaxOffset + 1 lowest and highest 24-bit values.
MaxOffset == 31
TargetSamples == (0..MaxOffset) \cup ((MaxColorValue - MaxOffset)..MaxColorValue)

ContentScripts == {"content/index.ts", "content.js"}

\* The draws of Math.floor(Math.random() * ...) with which the generator of
\* the given script returns the color of value target: one draw scaled by
\* 16777215 in content/index.ts, one draw scaled by 256 per channel in
\* content.js (combined here as r << 16 + g << 8 + b).
DrawsFor(script, target) ==
    IF script = "content/index.ts"
    THEN {n \in {target} \cap RandomFloor(16777215) :
             ParseDigits(Tail(RandomHex(n)), 16, 0) = target}
    ELSE LET r == target \div 65536
             g == (target \div 256) % 256
             b == target % 256
         IN  {n \in {65536 * r + 256 * g + b} :
                 /\ {r, g, b} \subseteq RandomFloor(256)
                 /\ ParseDigits(Tail(randomHexColor(n)), 16, 0) = target}

InitRandom ==
    /\ ScriptAtRest
    /\ probe \in {[fn |-> "randomColor", state |-> "called", script |-> sc,
                    target |-> t, possible |-> FALSE] :
                       sc \in ContentScripts, t \in TargetSamples}

\* The generator runs; possible tells whether some draw returns the target.
RandomColorCall ==
    /\ probe.fn = "randomColor"
    /\ probe.state = "called"
    /\ probe' = [probe EXCEPT
                    !.state = "returned",
                    !.possible = DrawsFor(probe.script, probe.target) # {}]
    /\ UNCHANGED scriptVars

NextRandom == RandomColorCall

RandomSpec == InitRandom /\ [][NextRandom]_vars

(***************************************************************************)
(* background/index.ts: the service worker's update check.  Its state is   *)
(* held in probe: the runs of checkForUpdate in flight, chrome.storage     *)
(* .local, the action badge and the alarm.                                 *)
(***************************************************************************)
UPDATE_ALARM_NAME == "checkUpdateAlarm"

\* chrome.runtime.getManifest().version
ManifestVersion == <<"1", ".", "0", ".", "0">>

\* html_url of a release.
ReleaseUrl == <<"https://github.com/uictorius/Discolors/releases/tag">>

\* tag_name of the release fetched: newer, equal, older, two-part, "v", without
\* digits, missing, and not a string.
TagSamples ==
    {<<"v", "1", ".", "1", ".", "0">>, <<"v", "1", ".", "0", ".", "0">>,
     <<"0", ".", "9", ".", "9">>, <<"v", "1", ".", "1">>, <<"v">>,
     <<"n", "e", "x", "t">>, Undefined, NumberValue}

\* How `await fetch(...)` and `await response.json()` come out.
FetchOutcomes ==
    {[kind |-> k, tag_name |-> Undefined, html_url |-> Undefined] :
        k \in {"rejected", "httpError", "invalidJson", "nullRelease"}}
    \cup [kind : {"release"}, tag_name : TagSamples,
          html_url : {ReleaseUrl, Undefined}]

\* tag_name.replace(/^v/, '')
stripLeadingV(tag) == IF Len(tag) > 0 /\ tag[1] = "v" THEN Tail(tag) ELSE tag

\* What the catch block of checkForUpdate stores, and the badge it sets.
UpdateReset ==
    [info |-> [updateAvailable |-> FALSE, latestVersion |-> Undefined,
               latestUrl |-> Undefined],
     text |-> ""]

\* checkForUpdate from the settled fetch up to its `await setUpdateInfo(...)`:
\* the info it passes (an Undefined field is a key not passed) and the badge
\* text it will set afterwards.
updateDecision(outcome) ==
    IF outcome.kind # "release"
    THEN UpdateReset           \* fetch or json() rejected, !response.ok, or
                               \* release is null: the catch block
    ELSE IF outcome.tag_name = NumberValue
    THEN UpdateReset           \* tag_name.replace is not a function
    ELSE IF outcome.tag_name = Undefined
    THEN UpdateReset           \* latestVersion is undefined
    ELSE LET latestVersion == stripLeadingV(outcome.tag_name)
         IN  IF Len(latestVersion) = 0 \/ outcome.html_url = Undefined
             THEN UpdateReset
             ELSE IF isNewerVersion(ManifestVersion, latestVersion)
             THEN [info |-> [updateAvailable |-> TRUE,
                             latestVersion |-> latestVersion,
                             latestUrl |-> outcome.html_url],
                   text |-> "NEW"]
             ELSE UpdateReset

\* chrome.storage.local.set(info): the keys passed replace the stored ones.
storageLocalSet(stored, info) ==
    [updateAvailable |-> info.updateAvailable,
     latestVersion |-> IF info.latestVersion = Undefined
                       THEN stored.latestVersion ELSE info.latestVersion,
     latestUrl |-> IF info.latestUrl = Undefined
                   THEN stored.latestUrl ELSE info.latestUrl]

\* Number of checkForUpdate runs the model starts.
MaxRuns == 2

NoOutcome == [kind |-> "none", tag_name |-> Undefined, html_url |-> Undefined]

InitUpdate ==
    /\ ScriptAtRest
    /\ probe \in
         {[fn |-> "serviceWorker", event |-> "load", runs |-> {}, started |-> 0,
           alarms |-> {}, stored |-> st[1], badge |-> st[2],
           outcome |-> NoOutcome] :
             st \in {<<[updateAvailable |-> FALSE, latestVersion |-> Undefined,
                        latestUrl |-> Undefined], "">>,
                     <<[updateAvailable |-> TRUE,
                        latestVersion |-> <<"1", ".", "0", ".", "5">>,
                        latestUrl |-> ReleaseUrl], "NEW">>}}

\* checkForUpdate() up to `await fetch(GITHUB_API_URL)`.  alone: no other run
\* is in flight during this one.
startCheck(event) ==
    [probe EXCEPT
        !.event = event,
        !.started = probe.started + 1,
        !.runs = {[r EXCEPT !.alone = FALSE] : r \in probe.runs}
                    \cup {[id |-> probe.started + 1, pc |-> "fetching",
                           alone |-> probe.runs = {},
                           info |-> UpdateReset.info, text |-> ""]}]

\* chrome.runtime.onInstalled: create the alarm, check at once.
OnInstalled ==
    /\ probe.fn = "serviceWorker"
    /\ probe.started < MaxRuns
    /\ probe' = [startCheck("onInstalled") EXCEPT
                    !.alarms = probe.alarms \cup {UPDATE_ALARM_NAME}]
    /\ UNCHANGED scriptVars

\* chrome.runtime.onStartup
OnStartup ==
    /\ probe.fn = "serviceWorker"
    /\ probe.started < MaxRuns
    /\ probe' = startCheck("onStartup")
    /\ UNCHANGED scriptVars

\* chrome.alarms.onAlarm: an alarm the extension created fires.
OnAlarm ==
    /\ probe.fn = "serviceWorker"
    /\ probe.started < MaxRuns
    /\ \E name \in probe.alarms :
          probe' = IF name = UPDATE_ALARM_NAME THEN startCheck("onAlarm")
                   ELSE [probe EXCEPT !.event = "otherAlarm"]
    /\ UNCHANGED scriptVars

\* The fetch of run r settles and checkForUpdate runs on to its
\* `await setUpdateInfo(...)`.
FetchSettles(r, outcome) ==
    /\ probe.fn = "serviceWorker"
    /\ r \in probe.runs
    /\ r.pc = "fetching"
    /\ LET decision == updateDecision(outcome)
       IN  probe' = [probe EXCEPT
                        !.event = "fetched",
                        !.outcome = outcome,
                        !.runs = (probe.runs \ {r}) \cup
                                   {[r EXCEPT !.pc = "storing",
                                              !.info = decision.info,
                                              !.text = decision.text]}]
    /\ UNCHANGED scriptVars

\* chrome.storage.local.set of run r is carried out by the browser (ok) or
\* fails; setUpdateInfo catches the failure and logs it.
StorageSetSettles(r, ok) ==
    /\ probe.fn = "serviceWorker"
    /\ r \in probe.runs
    /\ r.pc = "storing"
    /\ probe' = [probe EXCEPT
                    !.event = IF ok THEN "stored" ELSE "storeFailed",
                    !.stored = IF ok THEN storageLocalSet(probe.stored, r.info)
                               ELSE probe.stored,
                    !.runs = (probe.runs \ {r}) \cup {[r EXCEPT !.pc = "stored"]}]
    /\ UNCHANGED scriptVars

\* updateBadge(text): chrome.action.setBadgeText({ text })
updateBadge(text) == text

\* Run r resumes after `await setUpdateInfo(...)`, sets the badge and ends.
CheckCompletes(r) ==
    /\ probe.fn = "serviceWorker"
    /\ r \in probe.runs
    /\ r.pc = "stored"
    /\ probe' = [probe EXCEPT
                    !.event = IF r.alone THEN "completedAlone" ELSE "completed",
                    !.badge = updateBadge(r.text),
                    !.runs = probe.runs \ {r}]
    /\ UNCHANGED scriptVars

NextUpdate ==
    \/ OnInstalled
    \/ OnStartup
    \/ OnAlarm
    \/ \E r \in probe.runs, outcome \in FetchOutcomes : FetchSettles(r, outcome)
    \/ \E r \in probe.runs, ok \in BOOLEAN : StorageSetSettles(r, ok)
    \/ \E r \in probe.runs : CheckCompletes(r)

UpdateSpec == InitUpdate /\ [][NextUpdate]_vars

(***************************************************************************)
(* isNewerVersion under its own specification.                             *)
(***************************************************************************)
\* The parts versions are made of, and the number of parts of a version.
PartSamples == {<<"0">>, <<"1">>, <<"1", "0">>, <<"0", "1">>}
MaxParts == 3

\* The parts joined by ".".
RECURSIVE JoinParts(_)
JoinParts(parts) ==
    IF Len(parts) = 1 THEN parts[1]
    ELSE parts[1] \o <<".">> \o JoinParts(Tail(parts))

\* A version that coerces to 4.7.0 past a run of 17 digits, and one whose
\* major part is above Number.MAX_SAFE_INTEGER.
LongRunVersion ==
    <<"1", "0", "0", "0", "0", "0", "0", "0", "0", "0", "0", "0", "0", "0", "0",
      "0", "0", ".", "4", ".", "7">>
UnsafeVersion ==
    <<"9", "9", "9", "9", "9", "9", "9", "9", "9", "9", "9", "9", "9", "9", "9",
      "9", ".", "1", ".", "1">>

VersionSamples ==
    {JoinParts(parts) : parts \in UNION {[1..n -> PartSamples] : n \in 1..MaxParts}}
    \cup {<<>>, <<"n", "e", "x", "t">>, <<"v", "1", ".", "0", ".", "1">>,
          <<"1", ".", "0", ".", "1", "-", "b", "e", "t", "a">>,
          <<"1", ".">>, <<"r", "1", "0", "x">>, LongRunVersion, UnsafeVersion}

InitVersion ==
    /\ ScriptAtRest
    /\ probe \in {[fn |-> "isNewerVersion", state |-> "called", current |-> c,
                    latest |-> l, result |-> FALSE, swapped |-> FALSE] :
                       c \in VersionSamples, l \in VersionSamples}

\* isNewerVersion(probe.current, probe.latest) runs; swapped is the result of
\* the call with the arguments exchanged.
VersionCall ==
    /\ probe.fn = "isNewerVersion"
    /\ probe.state = "called"
    /\ probe' = [probe EXCEPT
                    !.state = "returned",
                    !.result = isNewerVersion(probe.current, probe.latest),
                    !.swapped = isNewerVersion(probe.latest, probe.current)]
    /\ UNCHANGED scriptVars

NextVersion == VersionCall

VersionSpec == InitVersion /\ [][NextVersion]_vars

(***************************************************************************)
(* popup/index.ts: the save button.  The popup's state is held in probe:   *)
(* the click handlers in flight, the status line, the update banner, the   *)
(* pending timers, chrome.storage.sync and the messages sent to the tab.   *)
(***************************************************************************)
StatusSaved == [text |-> "Settings saved!", color |-> "green"]
StatusCouldNotApply ==
    [text |-> "Could not apply. Please reload the Discord tab.", color |-> "orange"]
StatusEmpty == [text |-> "", color |-> ""]

\* Number of clicks on the save button.
MaxClicks == 2

\* Configs getConfigFromUI() returns.
PopupConfigs == {ConfigSolid, ConfigGradient, ConfigRandom}

InitPopup ==
    /\ ScriptAtRest
    /\ probe \in
         {[fn |-> "popup", event |-> "opened", isOnDiscord |-> d,
           updateShown |-> u, banner |-> u, synced |-> st, status |-> StatusEmpty,
           handlers |-> {}, clicks |-> 0, timers |-> 0, sent |-> <<>>,
           tabsCreated |-> 0, sendFailed |-> FALSE] :
             d \in BOOLEAN, u \in BOOLEAN, st \in {Null, ConfigGradient}}

\* The click handler up to `await setThemeConfig(newConfig)`.
SaveClick(newConfig) ==
    /\ probe.fn = "popup"
    /\ probe.clicks < MaxClicks
    /\ probe' = [probe EXCEPT
                    !.event = "clicked",
                    !.clicks = probe.clicks + 1,
                    !.handlers = probe.handlers \cup
                        {[id |-> probe.clicks + 1, pc |-> "persisting",
                          config |-> newConfig]}]
    /\ UNCHANGED scriptVars

\* chrome.storage.sync.set of handler h settles; setThemeConfig resolves
\* either way.  On Discord the handler goes on to notifyContentScript and its
\* chrome.tabs.query; elsewhere it opens Discord in a new tab and ends.
PopupPersistSettles(h, ok) ==
    /\ probe.fn = "popup"
    /\ h \in probe.handlers
    /\ h.pc = "persisting"
    /\ probe' = [probe EXCEPT
                    !.event = IF probe.isOnDiscord THEN "persisted" ELSE "handlerDone",
                    !.synced = IF ok THEN h.config ELSE probe.synced,
                    !.sendFailed = IF probe.isOnDiscord THEN probe.sendFailed ELSE FALSE,
                    !.tabsCreated = IF probe.isOnDiscord THEN probe.tabsCreated
                                    ELSE probe.tabsCreated + 1,
                    !.handlers = IF probe.isOnDiscord
                                 THEN (probe.handlers \ {h}) \cup
                                          {[h EXCEPT !.pc = "querying"]}
                                 ELSE probe.handlers \ {h}]
    /\ UNCHANGED scriptVars

\* The click handler after `await notifyContentScript(newConfig)`:
\* the success status, and a timer to clear it.
saveStatus(p) ==
    [p EXCEPT !.status = StatusSaved, !.timers = p.timers + 1]

\* chrome.tabs.query of notifyContentScript settles.  With a Discord tab the
\* message is sent; without one notifyContentScript returns and the handler
\* finishes.
PopupQuerySettles(h, found) ==
    /\ probe.fn = "popup"
    /\ h \in probe.handlers
    /\ h.pc = "querying"
    /\ probe' =
         IF found
         THEN [probe EXCEPT
                  !.event = "sending",
                  !.sent = Append(probe.sent,
                                  [action |-> "updateTheme", config |-> h.config]),
                  !.handlers = (probe.handlers \ {h}) \cup
                                   {[h EXCEPT !.pc = "sending"]}]
         ELSE saveStatus([probe EXCEPT !.event = "handlerDone",
                                       !.sendFailed = FALSE,
                                       !.handlers = probe.handlers \ {h}])
    /\ UNCHANGED scriptVars

\* chrome.tabs.sendMessage settles.  Fulfilled: notifyContentScript returns
\* and the handler finishes.  Rejected: the catch block calls
\* displayUpdateStatus(), which awaits getUpdateInfo().
PopupSendSettles(h, ok) ==
    /\ probe.fn = "popup"
    /\ h \in probe.handlers
    /\ h.pc = "sending"
    /\ probe' =
         IF ok
         THEN saveStatus([probe EXCEPT !.event = "handlerDone",
                                       !.sendFailed = FALSE,
                                       !.handlers = probe.handlers \ {h}])
         ELSE [probe EXCEPT
                  !.event = "sendRejected",
                  !.handlers = (probe.handlers \ {h}) \cup
                                   {[h EXCEPT !.pc = "displaying"]}]
    /\ UNCHANGED scriptVars

\* getUpdateInfo() settles: displayUpdateStatus sets the banner and empties
\* the status; the catch block of notifyContentScript writes the warning and
\* sets its timer; notifyContentScript returns and the handler finishes.
PopupDisplaySettles(h) ==
    /\ probe.fn = "popup"
    /\ h \in probe.handlers
    /\ h.pc = "displaying"
    /\ LET displayed == [probe EXCEPT !.banner = probe.updateShown,
                                      !.status = StatusEmpty]
           warned == [displayed EXCEPT !.status = StatusCouldNotApply,
                                       !.timers = displayed.timers + 1]
       IN  probe' = saveStatus([warned EXCEPT !.event = "handlerDone",
                                              !.sendFailed = TRUE,
                                              !.handlers = probe.handlers \ {h}])
    /\ UNCHANGED scriptVars

\* A setTimeout callback runs and clears the status.
PopupTimerFires ==
    /\ probe.fn = "popup"
    /\ probe.timers > 0
    /\ probe' = [probe EXCEPT !.event = "timer", !.timers = probe.timers - 1,
                              !.status = StatusEmpty]
    /\ UNCHANGED scriptVars

NextPopup ==
    \/ \E newConfig \in PopupConfigs : SaveClick(newConfig)
    \/ \E h \in probe.handlers, ok \in BOOLEAN : PopupPersistSettles(h, ok)
    \/ \E h \in probe.handlers, found \in BOOLEAN : PopupQuerySettles(h, found)
    \/ \E h \in probe.handlers, ok \in BOOLEAN : PopupSendSettles(h, ok)
    \/ \E h \in probe.handlers : PopupDisplaySettles(h)
    \/ PopupTimerFires

PopupSpec == InitPopup /\ [][NextPopup]_vars

(***************************************************************************)
(* Properties.                                                             *)
(***************************************************************************)
ThemeClassPresent == THEME_CLASS_NAME \in rootClasses
ObserverEvents == {"observerRestored", "observerIdle"}

\* C1: an observer callback that finds the theme class missing while the
\* style element is in place re-adds the class, and no observer callback
\* compiles or changes the style text: the text stays the one returned by the
\* most recent config-triggered compile.
C1_ObserverRestoresClassOnly ==
    [][ObserverCallback =>
          /\ (styleCount > 0 /\ ~ThemeClassPresent => ThemeClassPresent')
          /\ styleText' = styleText
          /\ compileCount' = compileCount
          /\ lastCompiled' = lastCompiled
          /\ (styleCount' > 0 => styleText' = lastCompiled')]_vars

\* C1 witness: the observer has just restored the class over a randomized
\* theme's style element.
C1_Witness ==
    /\ lastEvent = "observerRestored"
    /\ ThemeClassPresent
    /\ styleSource = ConfigRandom
    /\ styleText = lastCompiled
    /\ hostOps > 0

\* C2 (as claimed): once a theme has been applied, an observer callback that
\* finds the style element missing leaves it existing again with the last
\* compiled CSS text.
C2_ObserverRestoresStyle ==
    [][(ObserverCallback /\ writeCount > 0 /\ styleCount = 0) =>
          (styleCount' = 1 /\ styleText' = lastCompiled)]_vars

\* C3 (as claimed): in the state an observer callback leaves, the root has
\* the theme class if and only if the style element exists.
C3_Lockstep ==
    lastEvent \in ObserverEvents => (ThemeClassPresent <=> styleCount > 0)

\* C4: the document never holds more than one element with the engine's
\* style id.
C4_AtMostOneStyleElement == styleCount <= 1

\* C4 witness: a second apply has reused the one style element.
C4_Witness == styleCount = 1 /\ writeCount >= 2

\* Nothing is pending: main() has finished and no handler is suspended.
Quiescent == mainPc = "done" /\ handlers = {} /\ ~mutationPending

\* C5 (as claimed): once every pending operation has completed, the style
\* text in the document is the one compiled from the config of the most
\* recently delivered updateTheme message.
C5_LastUpdateWins ==
    (Quiescent /\ lastDelivered # Null /\ styleCount > 0)
        => styleSource = lastDelivered

\* C6 (as claimed): the step that receives an updateTheme message is the
\* step that applies its config.
C6_AppliedOnReceipt ==
    [][(delivered' = delivered + 1 /\ lastEvent' = "updateTheme")
          => applyCalls' = applyCalls + 1]_vars

\* C6 (amended): the step that receives an updateTheme message only suspends
\* the handler at its await (no compile, DOM untouched); applyTheme runs with
\* the message's config in the later step in which the persist settles.
C6_AppliedWhenPersistSettles ==
    [][/\ \A message \in Messages :
            (handleMessages(message) /\ message.action = "updateTheme") =>
                /\ UNCHANGED <<dom, counters>>
                /\ \E h \in handlers' \ handlers : h.config = message.config
       /\ \A h \in handlers, ok \in BOOLEAN :
            handleMessagesResume(h, ok) =>
                /\ applyCalls' = applyCalls + 1
                /\ head => (styleSource' = h.config /\ styleCount' > 0)]_vars

\* C6 witness: an observer callback has run between the receipt of an
\* updateTheme message and its apply.
C6_Witness ==
    /\ handlers # {}
    /\ lastEvent \in ObserverEvents
    /\ applyCalls = 1

\* C7: when chrome.storage.sync.set rejects, the handler still resumes and
\* calls applyTheme with the message's config; the store keeps its value.
C7_FailedPersistStillApplies ==
    [][\A h \in handlers :
          handleMessagesResume(h, FALSE) =>
              /\ applyCalls' = applyCalls + 1
              /\ store' = store
              /\ head => /\ styleSource' = h.config
                         /\ styleCount' > 0
                         /\ ThemeClassPresent']_vars

\* C7 witness: a persist has just failed on an empty store and the message's
\* config is the one applied.
C7_Witness ==
    /\ lastEvent = "persistFailed"
    /\ store = Null
    /\ styleCount = 1
    /\ styleSource = lastDelivered

\* C8: when the startup read yielded no config, no style element and no theme
\* class exist as long as no updateTheme handler has run its apply.
C8_NothingAppliedWithoutConfig ==
    (mainPc \in {"replied", "done"} /\ savedConfig = Null /\ handled = 0)
        => (styleCount = 0 /\ ~ThemeClassPresent)

\* C8 witness: with no saved config, the observer has run after a host
\* mutation while an updateTheme handler is still suspended.
C8_Witness ==
    /\ mainPc = "done"
    /\ savedConfig = Null
    /\ handled = 0
    /\ lastEvent = "observerIdle"
    /\ handlers # {}

\* C9: a message whose action is not 'updateTheme' changes neither the store,
\* the suspended handlers, the DOM nor the compile and write counts.
C9_OtherActionsIgnored ==
    [][\A message \in Messages :
          (handleMessages(message) /\ message.action # "updateTheme") =>
              UNCHANGED <<dom, store, handlers, counters, mutationPending>>]_vars

\* C9 witness: a message with another action has just been delivered to a
\* themed page.
C9_Witness ==
    /\ lastEvent = "ignoredMessage"
    /\ styleCount = 1
    /\ ThemeClassPresent

\* C10 (as claimed): every handled updateTheme message compiles once and
\* writes the style text once, and no other step after initialization
\* compiles or writes.
C10_ExactlyOncePerUpdate ==
    [][/\ handled' = handled + 1 =>
            (compileCount' = compileCount + 1 /\ writeCount' = writeCount + 1)
       /\ (handled' = handled /\ lastEvent' # "mainResumed") =>
            (compileCount' = compileCount /\ writeCount' = writeCount)]_vars

\* C10 (amended): every handled updateTheme message compiles once and writes
\* the style text once when document.head exists, and does neither when it
\* does not; no other step after initialization compiles or writes.
C10_OncePerUpdateWithHead ==
    [][/\ handled' = handled + 1 =>
            IF head
            THEN compileCount' = compileCount + 1 /\ writeCount' = writeCount + 1
            ELSE compileCount' = compileCount /\ writeCount' = writeCount
       /\ (handled' = handled /\ lastEvent' # "mainResumed") =>
            (compileCount' = compileCount /\ writeCount' = writeCount)]_vars

\* C10 witness: two updates were handled with one compile and one write each,
\* and an observer callback has run since.
C10_Witness ==
    /\ handled = 2
    /\ compileCount = 2
    /\ writeCount = 2
    /\ lastEvent \in ObserverEvents

\* The configs whose resolved color list is empty, whatever a compile draws.
ResolvesEmpty(config) ==
    \A rnd \in RandomDraws(config) : Len(colorsToUse(config, rnd)) = 0

\* A step in which applyTheme ran past its `if (!head) return`.
ApplyStep == applyCalls' = applyCalls + 1 /\ head

\* C11: no step of the engine removes the theme class from the root: the
\* class leaves the root's class list only in a step of the host page, also
\* when the config applied compiles to the empty text.
C11_EngineNeverRemovesClass ==
    [][(ThemeClassPresent /\ ~ThemeClassPresent') => lastEvent' = "hostRemovedClass"]_vars

\* An apply of a config that compiles to the empty text has run while the
\* class was set, and the class is still set.
C11_Witness ==
    /\ styleSource = ConfigEmpty
    /\ styleText = EmptyCss
    /\ writeCount >= 2
    /\ lastEvent \in {"persisted", "persistFailed"}
    /\ ThemeClassPresent

\* C12: an apply of a config whose resolved color list is empty leaves the
\* style text, the number of style elements and the root's class list as
\* they were.
C12_EmptyApplyIsNoOp ==
    [][(ApplyStep /\ writeCount' # writeCount /\ ResolvesEmpty(styleSource'))
          => UNCHANGED <<styleText, styleCount, rootClasses>>]_vars

C16_CompileNeverThrows ==
    [][compileCount' # compileCount => writeCount' = writeCount + 1]_vars

\* C15: sanitizeGradientDirection returns, for a string made of one or more
\* decimal digits followed by "deg", the number clamped to 0..360 followed by
\* "deg", and "90deg" for every other string; every result is a decimal
\* number in 0..360 followed by "deg".
C15_SanitizedDirection ==
    (probe.fn = "sanitizeGradientDirection" /\ probe.state = "returned") =>
        LET wellFormed == /\ probe.prefix = <<>>
                          /\ Len(probe.digits) >= 1
                          /\ probe.suffix = DegSuffix
            n == ParseDigits(probe.digits, 10, 0)
            out == probe.output
            outDigits == SubSeq(out, 1, Len(out) - 3)
        IN  /\ wellFormed =>
                   out = NumToString(IF n > 360 THEN 360 ELSE n, 10) \o DegSuffix
            /\ ~wellFormed => out = <<"9", "0", "d", "e", "g">>
            /\ Len(out) >= 4
            /\ SubSeq(out, Len(out) - 2, Len(out)) = <<"d", "e", "g">>
            /\ \A i \in 1..Len(outDigits) : IsDecDigit(outDigits[i])
            /\ ParseDigits(outDigits, 10, 0) \in 0..360
            /\ probe.input = <<"4", "5", "d", "e", "g">> =>
                   out = <<"4", "5", "d", "e", "g">>
            /\ probe.input = <<"9", "0", "0", "d", "e", "g">> =>
                   out = <<"3", "6", "0", "d", "e", "g">>

\* The call with "900deg" has returned "360deg".
C15_Witness ==
    /\ probe.fn = "sanitizeGradientDirection"
    /\ probe.state = "returned"
    /\ probe.input = <<"9", "0", "0", "d", "e", "g">>
    /\ probe.output = <<"3", "6", "0", "d", "e", "g">>

\* A call of generateThemeCSS has returned (or thrown).
Compiled == probe.fn = "generateThemeCSS" /\ probe.state = "returned"

\* The call returned CSS text that is not empty.
CompiledText == Compiled /\ probe.output \notin {EmptyCss, Thrown}

\* C13: generateThemeCSS returns the empty string whenever the resolved
\* color list is empty: without random colors when config.colors is empty or
\* colorCount is 0, with random colors when colorCount is 0.
C13_EmptyPaletteCompilesEmpty ==
    Compiled =>
        LET c == probe.config
        IN  /\ (~c.useRandomColors /\ (Len(c.colors) = 0 \/ c.colorCount = 0))
                   => probe.output = EmptyCss
            /\ (c.useRandomColors /\ c.colorCount = 0) => probe.output = EmptyCss
            /\ Len(probe.colors) = 0 => probe.output = EmptyCss

\* A config with colorCount 2 and no colors has compiled to the empty string.
C13_Witness ==
    /\ Compiled
    /\ ~probe.config.useRandomColors
    /\ probe.config.colorCount = 2
    /\ probe.config.colors = <<>>
    /\ probe.output = EmptyCss

\* C17: without random colors the resolved colors are the first colorCount
\* entries of config.colors in their order, and the resolved direction is
\* sanitizeGradientDirection(config.gradientDirection).
C17_StoredPaletteResolved ==
    (Compiled /\ ~probe.config.useRandomColors) =>
        LET c == probe.config
        IN  /\ Len(probe.colors) =
                   (IF c.colorCount < Len(c.colors) THEN c.colorCount ELSE Len(c.colors))
            /\ \A i \in 1..Len(probe.colors) : probe.colors[i] = c.colors[i]
            /\ Len(probe.colors) > 0 =>
                   probe.direction = sanitizeGradientDirection(c.gradientDirection)
            /\ (Len(probe.colors) > 0 /\ c.gradientDirection = <<"9", "0", "0", "d", "e", "g">>)
                   => probe.direction = <<"3", "6", "0", "d", "e", "g">>

\* Two of three stored colors were resolved, with "900deg" clamped.
C17_Witness ==
    /\ Compiled
    /\ ~probe.config.useRandomColors
    /\ probe.config.colorCount = 2
    /\ probe.config.colors = <<Cdad7cd, C213220, C344e41>>
    /\ probe.colors = <<Cdad7cd, C213220>>
    /\ probe.config.gradientDirection = Deg900
    /\ probe.direction = <<"3", "6", "0", "d", "e", "g">>

\* C18: with random colors a compile resolves exactly colorCount colors,
\* each "#" followed by the six hex digits of the number drawn for it, and
\* the direction is the drawn integer angle in 0..359 followed by "deg";
\* config.colors and config.gradientDirection have no influence on the
\* result.
C18_RandomPaletteResolved ==
    (Compiled /\ probe.config.useRandomColors) =>
        LET c == probe.config
        IN  /\ Len(probe.colors) = c.colorCount
            /\ \A i \in 1..Len(probe.colors) :
                   LET col == probe.colors[i]
                   IN  /\ Len(col) = 7
                       /\ col[1] = "#"
                       /\ \A k \in 2..7 : \E d \in 1..16 : HexChars[d] = col[k]
                       /\ ParseDigits(Tail(col), 16, 0) = probe.rnd.colors[i]
            /\ Len(probe.colors) > 0 =>
                   /\ probe.rnd.angle \in 0..359
                   /\ probe.direction = NumToString(probe.rnd.angle, 10) \o <<"d", "e", "g">>
            /\ probe.output =
                   generateThemeCSS([c EXCEPT !.colors = <<Cdad7cd>>,
                                              !.gradientDirection = Deg45],
                                    probe.classes, probe.rnd)

\* A second compile of a random config has drawn another palette than the
\* first: its text differs from the one the first compile returned.
C18_Witness ==
    /\ Compiled
    /\ probe.config.useRandomColors
    /\ probe.config.colorCount = 2
    /\ probe.calls = 2
    /\ probe.changed
    /\ probe.colors = <<<<"#", "0", "0", "0", "0", "0", "0">>,
                        <<"#", "f", "f", "f", "f", "f", "e">>>>

C20_VariantsFromFirstColor ==
    CompiledText =>
        LET first == probe.colors[1]
        IN  /\ probe.output.baseColorDark = adjustColor(first, -35)
            /\ probe.output.baseColorLight = adjustColor(first, 130)
            /\ probe.output.textColorDark = getTextColor(probe.output.baseColorDark)
            /\ probe.output.textColorLight = getTextColor(probe.output.baseColorLight)
            /\ first = C213220 =>
                   /\ probe.output.baseColorDark = <<"#", "0", "0", "0", "f", "0", "0">>
                   /\ probe.output.baseColorLight = <<"#", "a", "3", "b", "4", "a", "2">>
                   /\ probe.output.textColorDark = <<"#", "f", "f", "f", "f", "f", "f">>
                   /\ probe.output.textColorLight = <<"#", "0", "0", "0", "0", "0", "0">>

\* A gradient of three colors has compiled, its variants derived from the
\* first.
C20_Witness ==
    /\ CompiledText
    /\ probe.colors = <<C213220, Cdad7cd, C344e41>>
    /\ probe.output.baseColorDark = <<"#", "0", "0", "0", "f", "0", "0">>
    /\ probe.output.baseColorLight = <<"#", "a", "3", "b", "4", "a", "2">>

\* C21: the mix amounts of the compiled text follow the host mode alone:
\* 70.4% and 30% when the mode is dark, 15.2% and 40% when it is light,
\* whatever the config.
C21_AmountsFollowMode ==
    CompiledText =>
        /\ probe.classes \in {{}, {"theme-dark"}} =>
               /\ probe.output.baseColorAmount = "70.4%"
               /\ probe.output.textColorAmount = "30%"
        /\ probe.classes = {"theme-light"} =>
               /\ probe.output.baseColorAmount = "15.2%"
               /\ probe.output.textColorAmount = "40%"

\* A random config has compiled on a light host.
C21_Witness ==
    /\ CompiledText
    /\ probe.config.useRandomColors
    /\ probe.classes = {"theme-light"}
    /\ probe.output.baseColorAmount = "15.2%"
    /\ probe.output.textColorAmount = "40%"

\* C22: detectThemeMode returns light when the token theme-light is in the
\* root's class list and dark otherwise (the token theme-dark is present, or
\* neither is); a longer token that contains one of the two names does not
\* count.
C22_ModeFromWholeTokens ==
    (probe.fn = "detectThemeMode" /\ probe.state = "returned") =>
        probe.output = (IF "theme-light" \in probe.classes THEN "light" ELSE "dark")

\* C23: the host mode is read by the compile only: a step in which the host
\* switches the root between theme-dark and theme-light, and every observer
\* callback, compiles nothing and leaves the style text (its mix amounts
\* included) as it was compiled.
C23_ModeReadAtCompileOnly ==
    [][lastEvent' \in {"hostSetMode"} \cup ObserverEvents =>
          /\ styleText' = styleText
          /\ compileCount' = compileCount
          /\ writeCount' = writeCount]_vars

\* The text was compiled on a dark host, the host has switched to
\* theme-light, the observer callback has run, and the text still holds the
\* dark amounts.
C23_Witness ==
    /\ styleCount > 0
    /\ styleText \notin {NoText, EmptyCss, Thrown}
    /\ styleText.baseColorAmount = "70.4%"
    /\ styleText = lastCompiled
    /\ "theme-light" \in rootClasses
    /\ observing
    /\ ~mutationPending
    /\ lastEvent = "observerIdle"

\* A call of adjustColor has returned.
Adjusted == probe.fn = "adjustColor" /\ probe.state = "returned"

\* C24: for a color of six hex digits, with or without "#", and an integer
\* amount, adjustColor returns six hex digits, preceded by "#" exactly when
\* the argument was, whose channels are each channel of the argument plus
\* the amount, clamped to 0..255 and written as two digits.
C24_AdjustClampsChannels ==
    Adjusted =>
        LET out == probe.output
            digits == IF probe.pound THEN Tail(out) ELSE out
            shifted(ch) ==
                IF ByteVal(ch) + probe.amount > 255 THEN 255
                ELSE IF ByteVal(ch) + probe.amount < 0 THEN 0
                ELSE ByteVal(ch) + probe.amount
        IN  /\ Len(out) = (IF probe.pound THEN 7 ELSE 6)
            /\ (out[1] = "#") <=> probe.pound
            /\ \A k \in 1..Len(digits) : \E d \in 1..16 : HexChars[d] = digits[k]
            /\ digits = HexByte(shifted(probe.r)) \o HexByte(shifted(probe.g))
                            \o HexByte(shifted(probe.b))

\* "#0f80FE" shifted by -35 has given "#005ddb".
C24_Witness ==
    /\ Adjusted
    /\ probe.input = <<"#", "0", "f", "8", "0", "F", "E">>
    /\ probe.amount = -35
    /\ probe.output = <<"#", "0", "0", "5", "d", "d", "b">>

\* The argument with its hex letters in lower case.
LowerCase(hex) ==
    [k \in 1..Len(hex) |-> IF hex[k] = "#" THEN "#" ELSE HexChars[HexVal(hex[k]) + 1]]

\* C25: adjustColor(c, 0) is c, up to the case of the hex letters, also for
\* colors that start with zero digits.
C25_AdjustByZeroIsIdentity ==
    (Adjusted /\ probe.amount = 0) => probe.output = LowerCase(probe.input)

\* "#000f00" shifted by 0 has given "#000f00".
C25_Witness ==
    /\ Adjusted
    /\ probe.amount = 0
    /\ probe.input = <<"#", "0", "0", "0", "f", "0", "0">>
    /\ probe.output = <<"#", "0", "0", "0", "f", "0", "0">>

\* C26: getTextColor returns "#000000" when 0.299 R + 0.587 G + 0.114 B
\* exceeds 128 and "#ffffff" otherwise, and it is monotonic: a color whose
\* channels are all at least those of a color that gets "#000000" gets
\* "#000000" too.
C26_TextColorByLuminance ==
    (probe.fn = "getTextColor" /\ probe.state = "returned") =>
        LET vr == ByteVal(probe.r)
            vg == ByteVal(probe.g)
            vb == ByteVal(probe.b)
        IN  /\ probe.output \in {<<"#", "0", "0", "0", "0", "0", "0">>,
                                  <<"#", "f", "f", "f", "f", "f", "f">>}
            /\ (probe.output = <<"#", "0", "0", "0", "0", "0", "0">>)
                   <=> (299 * vr + 587 * vg + 114 * vb > 128000)
            /\ probe.output = <<"#", "0", "0", "0", "0", "0", "0">> =>
                   \A wr \in LevelSamples, wg \in LevelSamples, wb \in LevelSamples :
                       (wr >= vr /\ wg >= vg /\ wb >= vb) =>
                           getTextColor(<<"#">> \o HexByte(wr) \o HexByte(wg)
                                            \o HexByte(wb))
                               = <<"#", "0", "0", "0", "0", "0", "0">>

\* "#808080", whose luminance is exactly 128, has got "#ffffff".
C26_Witness ==
    /\ probe.fn = "getTextColor"
    /\ probe.state = "returned"
    /\ probe.input = <<"#", "8", "0", "8", "0", "8", "0">>
    /\ probe.output = <<"#", "f", "f", "f", "f", "f", "f">>

HostEvents == {"hostRemovedClass", "hostRemovedStyle", "hostSetMode", "headParsed"}

C28_OnlyApplierMutatesDom ==
    [][(/\ lastEvent' \notin HostEvents
        /\ \/ rootClasses' # rootClasses
           \/ styleCount' # styleCount
           \/ styleText' # styleText)
          => applyCalls' = applyCalls + 1]_vars

\* C29: a call of applyTheme without document.head changes nothing: no
\* style element, no class, no compile, no mutation record; it returns
\* normally (main() goes on to register the observer), and nothing applies
\* later on its behalf when the head appears.
C29_NoHeadNoOp ==
    [][/\ (applyCalls' = applyCalls + 1 /\ ~head) =>
              /\ UNCHANGED <<rootClasses, styleCount, styleText, compileCount,
                             writeCount, mutationPending>>
              /\ lastEvent' = "mainResumed" => observing'
       /\ lastEvent' = "headParsed" =>
              /\ applyCalls' = applyCalls
              /\ UNCHANGED <<rootClasses, styleCount, styleText>>]_vars

\* main() has applied a stored config without document.head, the head has
\* appeared since, and the document carries no style element and no class.
C29_Witness ==
    /\ applyCalls = 1
    /\ savedConfig = ConfigNoDirection
    /\ mainPc = "done"
    /\ observing
    /\ head
    /\ lastEvent = "headParsed"
    /\ styleCount = 0
    /\ ~ThemeClassPresent

\* C30: in content.js, when the observer callback finds the class or the
\* style element missing and calls applyCustomCSS, the style text afterwards
\* is the text that was applied last before: the restoration compiles
\* nothing anew, so a random palette and angle stay as they were.
C30_LegacyRestoreKeepsText ==
    [][(lastEvent' = "observerRestored" /\ applyCalls' = applyCalls + 1
           /\ lastCompiled # NoText)
          => styleText' = lastCompiled]_vars

\* C31: whenever the engine's style element exists, the persistence observer
\* is registered: no interleaving of main() and handleMessages applies a theme
\* while the watcher is not yet observing.
C31_AppliedOnlyWhileObserving == styleCount > 0 => observing

(***************************************************************************)
(* The mutation loop between the engine's class writes and its observer.   *)
(***************************************************************************)
\* The browser delivers queued mutation records: the observer's callback runs
\* at the next microtask checkpoint whenever records are pending.
\* The inputs of the loop: a saved config, and updates from the popup.
LoopMessages == {[action |-> "updateTheme", config |-> ConfigSolid]}

InitLoop == Init /\ store = ConfigGradient /\ rootClasses = {}

NextLoop ==
    \/ Main
    \/ \E ok \in BOOLEAN : StorageGet(ok)
    \/ MainResume
    \/ \E message \in LoopMessages : handleMessages(message)
    \/ \E h \in handlers, ok \in BOOLEAN : handleMessagesResume(h, ok)
    \/ ObserverCallback
    \/ HostRemoveClass
    \/ HostRemoveStyle
    \/ \E tokens \in {{"theme-dark"}, {"theme-light"}} : HostSetMode(tokens)
    \/ HeadParsed

LoopSpec == InitLoop /\ [][NextLoop]_vars /\ WF_vars(ObserverCallback)

\* C32: the callback that answers a class mutation made by the engine itself
\* (by applyTheme or by a restoration) writes nothing, and the pending callbacks
\* run out: from some point on no mutation record is pending, so the engine
\* does not feed its own observer forever.
C32_NoSelfSustainedLoop ==
    /\ [][(lastEvent \in {"observerRestored", "mainResumed", "persisted",
                          "persistFailed"}
             /\ lastEvent' \in ObserverEvents)
            => (lastEvent' = "observerIdle" /\ UNCHANGED dom)]_vars
    /\ <>[](~mutationPending)

\* A restoration by the callback has been answered by an idle callback.
C32_Witness ==
    /\ lastEvent = "observerIdle"
    /\ ~mutationPending
    /\ observing
    /\ hostOps > 0
    /\ ThemeClassPresent
    /\ styleCount > 0

\* C33: the engine adds the theme class only while its style element is in the
\* document: after an applyTheme that reached classList.add the element exists,
\* and the observer callback adds the class only when it found the element; with
\* no theme ever applied the callback leaves the root unmarked.
C33_ClassOnlyWithStyle ==
    [][/\ (ApplyStep /\ THEME_CLASS_NAME \in rootClasses') => styleCount' > 0
       /\ lastEvent' = "observerRestored" => (styleCount > 0 /\ styleCount' > 0)
       /\ (lastEvent' \in ObserverEvents /\ styleCount = 0)
            => rootClasses' = rootClasses]_vars

\* The callback ran with no theme ever applied and left the root unmarked.
C33_Witness ==
    /\ lastEvent = "observerIdle"
    /\ applyCalls = 0
    /\ styleCount = 0
    /\ ~ThemeClassPresent

\* The text "undefined", as an array hole or a missing value serializes.
UndefinedChars == <<"u", "n", "d", "e", "f", "i", "n", "e", "d">>

\* Number of color stops written into a background value.
StopCount(value) == Cardinality({i \in 1..Len(value) : value[i] = "#"})

\* C34: a stored palette with fewer entries than colorCount compiles with
\* exactly the entries it has, in order: nothing is padded and no "undefined"
\* stop is written; a single available entry gives the solid color although
\* colorCount is larger than 1.
C34_ShortPaletteUsedAsIs ==
    (/\ CompiledText
     /\ ~probe.config.useRandomColors
     /\ Len(probe.config.colors) < probe.config.colorCount)
        => /\ probe.colors = probe.config.colors
           /\ StopCount(probe.output.background) = Len(probe.config.colors)
           /\ ~Includes(probe.output.background, UndefinedChars)
           /\ \A i \in 1..Len(probe.config.colors) :
                  Includes(probe.output.background, probe.config.colors[i])
           /\ Len(probe.config.colors) = 1
                  => probe.output.background = probe.config.colors[1]
           /\ Len(probe.config.colors) > 1
                  => probe.output.background =
                         LinearGradientOpen \o probe.direction \o CommaSpace
                             \o Join(probe.config.colors, CommaSpace) \o <<")">>

\* One stored color with colorCount 3 has compiled to the solid color.
C34_Witness ==
    /\ CompiledText
    /\ ~probe.config.useRandomColors
    /\ probe.config.colorCount = 3
    /\ probe.config.colors = <<C344e41>>
    /\ probe.output.background = C344e41

\* C35: every 24-bit value from #000000 to #ffffff is a possible output of
\* the random color generation of generateThemeCSS.
C35_RandomCoversRange ==
    (probe.fn = "randomColor" /\ probe.state = "returned"
        /\ probe.script = "content/index.ts")
        => probe.possible

\* The release fetched is one to announce: the fetch gave a release with a
\* tag and a URL whose version is above the manifest's.
ReleaseIsNewer(outcome) ==
    /\ outcome.kind = "release"
    /\ IsString(outcome.tag_name)
    /\ outcome.html_url # Undefined
    /\ isNewerVersion(ManifestVersion, stripLeadingV(outcome.tag_name))

\* C36: when a checkForUpdate run that overlapped no other run completes, the
\* stored updateAvailable is true (with the release's version and URL stored)
\* and the badge reads 'NEW' exactly when the release fetched is one to
\* announce; in every other case updateAvailable is stored false and the
\* badge is cleared.
C36_CheckOutcomeStored ==
    [][probe'.event = "completedAlone" =>
          LET newer == ReleaseIsNewer(probe.outcome)
          IN  /\ probe'.stored.updateAvailable = newer
              /\ probe'.badge = (IF newer THEN "NEW" ELSE "")
              /\ newer => /\ probe'.stored.latestVersion =
                               stripLeadingV(probe.outcome.tag_name)
                          /\ probe'.stored.latestUrl = probe.outcome.html_url]_vars

\* C37: once every checkForUpdate run started by onInstalled, onStartup and
\* the alarm has completed, whatever the interleaving of the runs and of their
\* storage writes, the badge reads 'NEW' if and only if the stored
\* updateAvailable is true.
C37_BadgeAgreesWithStore ==
    (probe.fn = "serviceWorker" /\ probe.started >= 1 /\ probe.runs = {})
        => (probe.badge = "NEW" <=> probe.stored.updateAvailable)

\* MAJOR.MINOR.PATCH of a coerced version as one number (parts below 1000).
VersionNumber(v) ==
    1000000 * ParseDigits(v.major, 10, 0) + 1000 * ParseDigits(v.minor, 10, 0)
        + ParseDigits(v.patch, 10, 0)

\* C38: isNewerVersion(current, latest) is true exactly when both strings
\* coerce to MAJOR.MINOR.PATCH and latest's is strictly above current's: it is
\* false for equal versions, never true in both directions, and false when
\* either string cannot be coerced.
C38_StrictlyNewer ==
    (probe.fn = "isNewerVersion" /\ probe.state = "returned") =>
        LET c == coerce(probe.current)
            l == coerce(probe.latest)
        IN  /\ probe.result \in BOOLEAN
            /\ (c = NoVersion \/ l = NoVersion) => ~probe.result
            /\ (c # NoVersion /\ l # NoVersion) =>
                   (probe.result <=> VersionNumber(l) > VersionNumber(c))
            /\ probe.current = probe.latest => ~probe.result
            /\ ~(probe.result /\ probe.swapped)
            /\ (probe.current = <<"1", ".", "0">>
                  /\ probe.latest = <<"v", "1", ".", "0", ".", "1">>) => probe.result
            /\ (probe.current = <<"1", ".", "1">>
                  /\ probe.latest = <<"1", ".", "1", ".", "0">>) => ~probe.result
            /\ (probe.current = <<"1", ".", "1">> /\ probe.latest = LongRunVersion)
                  => probe.result
            /\ probe.latest \in {<<>>, <<"n", "e", "x", "t">>, UnsafeVersion,
                                 <<"0", "1">>} => ~probe.result

\* A two-part version has been found older than one with a larger minor part
\* that sorts below it as text.
C38_Witness ==
    /\ probe.fn = "isNewerVersion"
    /\ probe.state = "returned"
    /\ probe.current = <<"1", ".", "1">>
    /\ probe.latest = <<"1", ".", "1", "0">>
    /\ probe.result
    /\ ~probe.swapped

\* C39: in the save handler the message to the content script is sent only
\* after the persist of the config has settled, and when chrome.tabs.sendMessage
\* rejected, the status on display when the handler finishes is the 'Could not
\* apply. Please reload the Discord tab.' warning, not 'Settings saved!'.
C39_WarningSurvivesFailedSend ==
    [][/\ Len(probe'.sent) > Len(probe.sent) =>
              \E h \in probe.handlers :
                  h.pc = "querying" /\ h.config = probe'.sent[Len(probe'.sent)].config
       /\ (probe'.event = "handlerDone" /\ probe'.sendFailed) =>
              probe'.status = StatusCouldNotApply]_vars

=============================================================================
